---- MODULE Spec2Model ----
(***************************************************************************)
(* A model of the sound-visualizer repository.                             *)
(*                                                                         *)
(*   Spec          VisualizerEngine (registry, switcher, frame driver)     *)
(*                 src/unnamed/part_000                                    *)
(*   SpecGeiss     Geiss.render / initBuffers / applyWarp / reset          *)
(*   SpecPlasma    Plasma.render / reset                                   *)
(*   SpecTerrain   Terrain.render / reset                                  *)
(*   SpecParticles Particles.render / spawnParticle / reset                *)
(*   SpecParticlesEdge  the same, on inputs around the bass rising edge    *)
(*   SpecAudio     AudioEngine start / stop / accessors and the analyser   *)
(*                                                                         *)
(* Every specification starts in the state right after construction of     *)
(* the objects and leaves the variables of the other components alone.     *)
(* A nullable field that holds a number or a buffer is a sequence of       *)
(* length 0 (null) or 1; a nullable object reference is a string, with     *)
(* Null for null.                                                          *)
(***************************************************************************)
EXTENDS Integers, Sequences, FiniteSets, TLC

VARIABLES
  \* ---- VisualizerEngine (src/unnamed/part_000) ----
  visualizers,        \* Map<string, Visualizer>: id -> instance, Null when absent
  currentVisualizer,  \* Visualizer | null
  animationId,        \* number | null: <<>> or <<handle>>
  startTime,          \* performance.now() at the last effective start(), ms
  \* ---- the engine's environment ----
  now,                \* performance.now(), ms
  rafPending,         \* the browser's list of scheduled animation frame callbacks
  rafNext,            \* the handle the next requestAnimationFrame returns
  isRunning,          \* AudioEngine.isRunning
  dirty,              \* per Effect instance: rendered since construction / reset()
  calls,              \* what the last handler did, in the order it did it
  uncaught,           \* the last handler ended by an error that escaped it
  renderTime,         \* the time of the most recent render call, s: <<>> or <<t>>
  renderStart,        \* startTime when that render call was made: <<>> or <<t0>>
  lastOp,             \* the last handler and its argument
  \* ---- Geiss (src/src/visualizers/Geiss.ts) ----
  buffer1,            \* ImageData | null: <<>> or <<[w, h]>>
  buffer2,
  currentBuffer,
  warpTime,           \* in 1/100000
  warpMode,
  warpModeTimer,      \* in 1/1000
  colorPhase,         \* in 1/100
  gWidth,             \* Geiss.width
  gHeight,            \* Geiss.height
  warpMapX,           \* Float32Array | null: <<>> or <<length>>
  warpMapY,
  gRenders,           \* render calls since construction or the last reset()
  gOutcome,           \* how the last Geiss call ended
  gCall,              \* the last render call since construction or reset():
                      \* <<>> or <<[width, height, resized]>>, its arguments
                      \* and whether it ran initBuffers on existing buffers
  \* ---- Plasma (src/src/visualizers/Starfield.ts, second class) ----
  imageData,          \* ImageData | null: <<>> or <<[w, h]>>
  pLastWidth,
  pLastHeight,
  pRenders,
  pOutcome,
  pCall,              \* as gCall, for Plasma
  \* ---- Terrain (src/src/visualizers/Terrain.ts, first class) ----
  history,            \* number[][], newest row first
  offset,             \* in 1/100
  tFrame,             \* frames rendered by the Terrain instance
  tPushed,            \* the row pushed by the last render call
  tEvicted,           \* the row popped by the last render call: <<>> or <<row>>
  \* ---- Particles (src/src/visualizers/Terrain.ts, second class) ----
  particles,          \* Particle[]
  lastBass,           \* in 1/100
  pFrame,             \* frames rendered by the Particles instance
  pPeak,              \* the largest pool size inside the last render call
  pGrown,             \* the pool of the last render call after its spawning
  pBurst,             \* the particles the burst loop of the last render call pushed
  pIn,                \* the inputs of the last render call: <<>> or <<in>>
  \* ---- AudioEngine (src/src/audio/AudioEngine.ts) ----
  audioContext,       \* AudioContext | null
  analyser,           \* AnalyserNode | null
  mediaStream,        \* MediaStream | null
  source,             \* MediaStreamAudioSourceNode | null
  frequencyData,      \* Uint8Array | null: <<>> or <<array>>
  waveformData,       \* Uint8Array | null: <<>> or <<array>>
  \* ---- the audio engine's environment ----
  binCount,           \* frequencyBinCount of the page's analysers, 0 before the first
  capture,            \* the data the analyser holds now (a Patterns name)
  capturedSince,      \* the analyser took new data since the last accessor call
  pendingStarts,      \* start() calls suspended at await getUserMedia
  inTask,             \* a caller (an Effect's render call) is running
  nReads,             \* accessor calls the running caller has made
  lastRead,           \* the caller's last accessor call: <<>> or
                      \* <<[acc, val, snap, again]>>; again: the same accessor
                      \* as the call before, with no new data in between
  aOp,                \* the last AudioEngine operation
  liveStreams,        \* microphone streams getUserMedia delivered whose tracks
                      \* were not stopped
  liveContexts,       \* AudioContexts created and not closed
  stoppedWhileStarting, \* stop() ran while a start() was suspended, and no
                      \* start() was called since
  \* ---- Spectrum (src/src/visualizers/Spectrum.ts) ----
  peaks,              \* number[]: <<>> or 64 peaks [b, k], b / 255 * 0.98^k
  sValues,            \* the bar values of the last frame, bytes; <<>>: none
  sFrame,             \* render calls made
  sOp,                \* the last Spectrum operation
  \* ---- Starfield (src/src/visualizers/Starfield.ts) ----
  stars,              \* Star[]: [z, fresh], z in 1/1000000
  starSpeed,          \* speed, in 1/1000000
  targetSpeed,        \* in 1/1000000
  stFrame,            \* render calls made
  stOp,               \* the last Starfield operation; "none": not constructed
  \* ---- Matrix (src/src/visualizers/Matrix.ts) ----
  columns,            \* MatrixColumn[]: [x, y, speed, chars, length]
  lastWidth,
  mFrame,             \* render calls made
  mWidth,             \* the width of the last render call: <<>> or <<w>>
  mRespawned,         \* columns the last render call replaced
  \* ---- Geiss.sampleBilinear and Geiss.drawWaveform ----
  smp,                \* the sampleBilinear call, if it was the last step:
                      \* buffer size, the four neighbours, the indices read
  plt,                \* the point of drawWaveform, if it was the last step:
                      \* buffer size, pixel and the index written, if any
  \* ---- the feature accessors as functions of the frequency data ----
  feat                \* the last accessor call: the accessor, the array
                      \* getFrequencyData returned to it and its result

engineVars == <<visualizers, currentVisualizer, animationId, startTime, now,
                rafPending, rafNext, isRunning, dirty, calls, uncaught,
                renderTime, renderStart, lastOp>>
geissVars == <<buffer1, buffer2, currentBuffer, warpTime, warpMode,
               warpModeTimer, colorPhase, gWidth, gHeight, warpMapX, warpMapY,
               gRenders, gOutcome, gCall>>
plasmaVars == <<imageData, pLastWidth, pLastHeight, pRenders, pOutcome,
                pCall>>
terrainVars == <<history, offset, tFrame, tPushed, tEvicted>>
particleVars == <<particles, lastBass, pFrame, pPeak, pGrown, pBurst, pIn>>
audioVars == <<audioContext, analyser, mediaStream, source, frequencyData,
               waveformData, binCount, capture, capturedSince, pendingStarts,
               inTask, nReads, lastRead, aOp, liveStreams, liveContexts,
               stoppedWhileStarting>>
resourceVars == <<liveStreams, liveContexts, stoppedWhileStarting>>
\* The engine's variables without AudioEngine.isRunning.
driverVars == <<visualizers, currentVisualizer, animationId, startTime, now,
                rafPending, rafNext, dirty, calls, uncaught, renderTime,
                renderStart, lastOp>>
spectrumVars == <<peaks, sValues, sFrame, sOp>>
starfieldVars == <<stars, starSpeed, targetSpeed, stFrame, stOp>>
matrixVars == <<columns, lastWidth, mFrame, mWidth, mRespawned>>
samplerVars == <<smp, plt>>
featureVars == <<feat>>
moreVars == <<spectrumVars, starfieldVars, matrixVars, samplerVars,
              featureVars>>
vars == <<engineVars, geissVars, plasmaVars, terrainVars, particleVars,
          audioVars, moreVars>>

Null == "null"

Min(a, b) == IF a < b THEN a ELSE b

RECURSIVE Gcd(_, _)
Gcd(a, b) == IF b = 0 THEN a ELSE Gcd(b, a % b)

\* AudioEngine's fftSize
FftSize == 2048

\* analyser.frequencyBinCount, half the fftSize: the length of every
\* non-empty array getFrequencyData() returns.
FrequencyBinCount == FftSize \div 2

(***************************************************************************)
(*                          VisualizerEngine                               *)
(***************************************************************************)

\* Bounds of the engine model.
MaxHandles == 4     \* requestAnimationFrame handles handed out
MaxClock == 2       \* seconds the clock advances

\* Effect instances: an Oscilloscope (no reset method) and two Particles
\* instances (reset method), registered under two ids; "nosuch" is never
\* registered.
Instances == {"osc", "partA", "partB"}
RegIds == {"oscilloscope", "particles"}
AllIds == RegIds \cup {"nosuch"}

\* Visualizer.reset?  (Oscilloscope.ts defines none)
HasReset(v) == v \in {"partA", "partB"}

EngineInit ==
  /\ visualizers = [id \in AllIds |-> Null]
  /\ currentVisualizer = Null
  /\ animationId = <<>>
  /\ startTime = 0
  /\ now = 0
  /\ rafPending = {}
  /\ rafNext = 1
  /\ isRunning = FALSE
  /\ dirty = [v \in Instances |-> FALSE]
  /\ calls = <<>>
  /\ uncaught = FALSE
  /\ renderTime = <<>>
  /\ renderStart = <<>>
  /\ lastOp = [op |-> "new", arg |-> Null]

\* A variant of MapSet that keeps the first value set for a key.
MapSetIfAbsent(map, id, v) ==
  IF map[id] = Null THEN [map EXCEPT ![id] = v] ELSE map

\* Map.set(id, v)
MapSet(map, id, v) == [map EXCEPT ![id] = v]

\* registerVisualizer(id, visualizer)
RegisterVisualizer(id, v) ==
  /\ visualizers' = MapSet(visualizers, id, v)
  /\ calls' = <<[op |-> "register", v |-> v]>>
  /\ uncaught' = FALSE
  /\ lastOp' = [op |-> "registerVisualizer", arg |-> id]
  /\ UNCHANGED <<currentVisualizer, animationId, startTime, now, rafPending,
                 rafNext, isRunning, dirty, renderTime,
                 renderStart>>

\* A variant of SwitchCalls that installs the new effect before the teardown
\* of the old one.
SwitchCallsInstallFirst(old, new) ==
  <<[op |-> "install", v |-> new]>>
    \o (IF old # Null /\ HasReset(old) THEN <<[op |-> "reset", v |-> old]>> ELSE <<>>)

\* The calls setVisualizer makes once the lookup succeeded, in order.
SwitchCalls(old, new) ==
  (IF old # Null /\ HasReset(old) THEN <<[op |-> "reset", v |-> old]>> ELSE <<>>)
    \o <<[op |-> "install", v |-> new]>>

\* The Effect state after a handler made the calls c: reset() returns an
\* Effect to its constructed state, render takes it out of it.
DirtyAfter(c) ==
  [v \in Instances |->
     IF \E i \in 1..Len(c) : c[i].op = "render" /\ c[i].v = v THEN TRUE
     ELSE IF \E i \in 1..Len(c) : c[i].op = "reset" /\ c[i].v = v THEN FALSE
     ELSE dirty[v]]

\* A variant of setVisualizer that tears the current effect down before it
\* looks the id up.
SetVisualizerResetsOnMiss(id) ==
  LET visualizer == visualizers[id]
      c == SwitchCalls(currentVisualizer,
                       IF visualizer = Null THEN currentVisualizer ELSE visualizer)
  IN
  /\ lastOp' = [op |-> "setVisualizer", arg |-> id]
  /\ uncaught' = FALSE
  /\ calls' = c
  /\ dirty' = DirtyAfter(c)
  /\ currentVisualizer' = IF visualizer = Null THEN currentVisualizer ELSE visualizer
  /\ UNCHANGED <<visualizers, animationId, startTime, now, rafPending, rafNext,
                 isRunning, renderTime,
                 renderStart>>

\* A variant of setVisualizer that installs the failed lookup's result.
SetVisualizerClearsOnMiss(id) ==
  LET visualizer == visualizers[id] IN
  /\ lastOp' = [op |-> "setVisualizer", arg |-> id]
  /\ uncaught' = FALSE
  /\ calls' = IF visualizer = Null THEN <<[op |-> "warn", v |-> Null]>>
              ELSE SwitchCalls(currentVisualizer, visualizer)
  /\ dirty' = IF visualizer = Null THEN dirty
              ELSE DirtyAfter(SwitchCalls(currentVisualizer, visualizer))
  /\ currentVisualizer' = visualizer
  /\ UNCHANGED <<visualizers, animationId, startTime, now, rafPending, rafNext,
                 isRunning, renderTime,
                 renderStart>>

\* setVisualizer(id)
SetVisualizer(id) ==
  LET visualizer == visualizers[id] IN
  /\ lastOp' = [op |-> "setVisualizer", arg |-> id]
  /\ uncaught' = FALSE
  /\ IF visualizer = Null
       THEN /\ calls' = <<[op |-> "warn", v |-> Null]>>
            /\ UNCHANGED <<currentVisualizer, dirty>>
       ELSE /\ calls' = SwitchCalls(currentVisualizer, visualizer)
            /\ dirty' = DirtyAfter(SwitchCalls(currentVisualizer, visualizer))
            /\ currentVisualizer' = visualizer
  /\ UNCHANGED <<visualizers, animationId, startTime, now, rafPending, rafNext,
                 isRunning, renderTime,
                 renderStart>>

\* A variant of AnimateCalls that renders whether or not audio is running.
AnimateCallsIgnoringAudio(cur, running, time) ==
  <<[op |-> "fade", v |-> Null]>>
    \o (IF cur # Null
          THEN <<[op |-> "render", v |-> cur, time |-> time]>>
          ELSE <<>>)

\* What one run of animate does after rescheduling: the fade overlay, then
\* the current effect's render when there is one and audio is running.
AnimateCalls(cur, running, time) ==
  <<[op |-> "fade", v |-> Null]>>
    \o (IF cur # Null /\ running
          THEN <<[op |-> "render", v |-> cur, time |-> time]>>
          ELSE <<>>)

\* A variant of ElapsedSeconds that does not subtract the start timestamp.
SecondsSinceLoad(t0) == now \div 1000

\* (performance.now() - this.startTime) / 1000
ElapsedSeconds(t0) == (now - t0) \div 1000

\* A variant of ScheduleFirst: requestAnimationFrame is the last statement
\* of animate.
ScheduleLast == FALSE

\* animate calls requestAnimationFrame before it does anything else.
ScheduleFirst == TRUE

\* animate: requestAnimationFrame first, then the frame.  raises: the
\* effect's render call, when the frame makes one, raises an error; nothing
\* in animate catches it and render is its last statement.
Animate(fired, t0, raises) ==
  LET c == AnimateCalls(currentVisualizer, isRunning, ElapsedSeconds(t0))
      raised == raises /\ \E i \in 1..Len(c) : c[i].op = "render"
  IN
  /\ calls' = c
  /\ renderTime' = IF \E i \in 1..Len(c) : c[i].op = "render"
                     THEN <<ElapsedSeconds(t0)>> ELSE renderTime
  /\ renderStart' = IF \E i \in 1..Len(c) : c[i].op = "render"
                      THEN <<t0>> ELSE renderStart
  /\ dirty' = DirtyAfter(c)
  /\ uncaught' = raised
  /\ IF ScheduleFirst \/ ~raised
       THEN /\ animationId' = <<rafNext>>
            /\ rafPending' = (rafPending \ fired) \cup {rafNext}
            /\ rafNext' = rafNext + 1
       ELSE /\ rafPending' = rafPending \ fired
            /\ UNCHANGED <<animationId, rafNext>>

\* A variant of StartIsNoOp without the guard of start().
StartNeverNoOp == FALSE

\* Whether start() returns at once.
StartIsNoOp == animationId # <<>>

\* start()
Start ==
  /\ rafNext <= MaxHandles
  /\ lastOp' = [op |-> "start", arg |-> Null]
  /\ IF StartIsNoOp
       THEN /\ calls' = <<>>
            /\ uncaught' = FALSE
            /\ UNCHANGED <<animationId, startTime, rafPending, rafNext, dirty,
                           renderTime,
                 renderStart>>
       ELSE /\ startTime' = now
            /\ \E raises \in BOOLEAN : Animate({}, now, raises)
  /\ UNCHANGED <<visualizers, currentVisualizer, now, isRunning>>

\* A variant of CancelAnimationFrame that leaves the callback scheduled.
CancelNothing(id) == rafPending

\* The frame callbacks left scheduled after stop() ran with handle id.
CancelAnimationFrame(id) == rafPending \ {id}

\* stop()
Stop ==
  /\ lastOp' = [op |-> "stop", arg |-> Null]
  /\ calls' = <<>>
  /\ uncaught' = FALSE
  /\ IF animationId # <<>>
       THEN /\ rafPending' = CancelAnimationFrame(animationId[1])
            /\ animationId' = <<>>
       ELSE UNCHANGED <<rafPending, animationId>>
  /\ UNCHANGED <<visualizers, currentVisualizer, startTime, now, rafNext,
                 isRunning, dirty, renderTime,
                 renderStart>>

\* The browser runs a scheduled frame callback: animate.
Tick ==
  /\ rafNext <= MaxHandles
  /\ \E h \in rafPending, raises \in BOOLEAN :
       /\ lastOp' = [op |-> "tick", arg |-> Null]
       /\ Animate({h}, startTime, raises)
  /\ UNCHANGED <<visualizers, currentVisualizer, startTime, now, isRunning>>

\* AudioEngine.isRunning becomes true (start() resolved) or false (stop()).
AudioToggle ==
  /\ isRunning' = ~isRunning
  /\ calls' = <<>>
  /\ uncaught' = FALSE
  /\ lastOp' = [op |-> "audio", arg |-> Null]
  /\ UNCHANGED <<visualizers, currentVisualizer, animationId, startTime, now,
                 rafPending, rafNext, dirty, renderTime,
                 renderStart>>

\* performance.now() advances.
ClockAdvance ==
  /\ now < MaxClock * 1000
  /\ now' = now + 1000
  /\ calls' = <<>>
  /\ uncaught' = FALSE
  /\ lastOp' = [op |-> "clock", arg |-> Null]
  /\ UNCHANGED <<visualizers, currentVisualizer, animationId, startTime,
                 rafPending, rafNext, isRunning, dirty, renderTime,
                 renderStart>>

(***************************************************************************)
(*                                Geiss                                    *)
(***************************************************************************)

\* Bounds of the Geiss and Plasma models.
MaxGeissFrames == 6     \* render calls made on the instance
MaxPlasmaFrames == 6

\* Surface sizes (CSS pixels) handed to render: below, at and above the
\* downscale factors 2 (Geiss) and 4 (Plasma).
GeissSizes == {1, 2, 5}
PlasmaSizes == {1, 4, 8, 13}

\* Audio features, in 1/100: silence and a strong beat.
GeissAudio == {[bass |-> 0, mid |-> 0], [bass |-> 80, mid |-> 50]}

GeissScale == 2
GeissModes == 5
TimerStep == 16         \* 0.016, in 1/1000
TimerLimit == 8000      \* 8
TimerBeatLimit == 2000  \* 2
BeatBass == 70          \* 0.7, in 1/100

GeissInit ==
  /\ buffer1 = <<>>
  /\ buffer2 = <<>>
  /\ currentBuffer = 0
  /\ warpTime = 0
  /\ warpMode = 0
  /\ colorPhase = 0
  /\ warpModeTimer = 0
  /\ gWidth = 0
  /\ gHeight = 0
  /\ warpMapX = <<>>
  /\ warpMapY = <<>>
  /\ gRenders = 0
  /\ gOutcome = "new"
  /\ gCall = <<>>

\* new ImageData(w, h) and ctx.createImageData(w, h) raise IndexSizeError
\* when a dimension is zero.
ImageDataThrows(w, h) == w = 0 \/ h = 0

\* drawImage raises InvalidStateError for a source canvas with a zero
\* dimension.
DrawImageThrows(w, h) == w = 0 \/ h = 0

\* A variant of GeissNeedsInit without the resize test.
GeissNeedsInitOnce(w, h) == buffer1 = <<>>

\* render's test before initBuffers.
GeissNeedsInit(w, h) == buffer1 = <<>> \/ gWidth # w \/ gHeight # h

\* applyWarp's buffer swap (it returns early without buffers or warp maps).
ApplyWarpSwap(cur, b1, b2, mx, my) ==
  IF b1 = <<>> \/ b2 = <<>> \/ mx = <<>> \/ my = <<>> THEN cur ELSE 1 - cur

\* The timer update and mode change of render.  warpModeTimer is the double
\* sum of n steps of 0.016 from 0, kept here as the exact 16 n: at the
\* steps where 16 n reaches a limit the double sum lies above it (125 steps
\* give 2.0000000000000013, 500 steps 8.000000000000005), so the tests
\* warpModeTimer > 2 and warpModeTimer > 8 hold from those steps on.
NextWarp(mode, timer, bass) ==
  LET t == timer + TimerStep IN
  IF t >= TimerLimit \/ (bass > BeatBass /\ t >= TimerBeatLimit)
    THEN [mode |-> (mode + 1) % GeissModes, timer |-> 0]
    ELSE [mode |-> mode, timer |-> t]

\* Geiss.render(ctx, audio, width, height, time)
GeissRender(width, height, a) ==
  LET w == width \div GeissScale
      h == height \div GeissScale
      init == GeissNeedsInit(w, h)
      b1 == IF init THEN <<[w |-> w, h |-> h]>> ELSE buffer1
      b2 == IF init THEN <<[w |-> w, h |-> h]>> ELSE buffer2
      mx == IF init THEN <<w * h>> ELSE warpMapX
      my == IF init THEN <<w * h>> ELSE warpMapY
      nw == NextWarp(warpMode, warpModeTimer, a.bass)
  IN
  /\ gRenders < MaxGeissFrames
  /\ warpModeTimer < TimerStep * MaxGeissFrames
  /\ gRenders' = gRenders + 1
  /\ gCall' = <<[width |-> width, height |-> height,
                 resized |-> init /\ buffer1 # <<>>]>>
  /\ gWidth' = IF init THEN w ELSE gWidth
  /\ gHeight' = IF init THEN h ELSE gHeight
  /\ IF init /\ ImageDataThrows(w, h)
       THEN \* initBuffers has set width and height and raises at line 42
            /\ gOutcome' = "IndexSizeError"
            /\ UNCHANGED <<buffer1, buffer2, currentBuffer, warpTime, warpMode,
                           warpModeTimer, colorPhase, warpMapX, warpMapY>>
       ELSE /\ buffer1' = b1
            /\ buffer2' = b2
            /\ warpMapX' = mx
            /\ warpMapY' = my
            /\ warpTime' = warpTime + TimerStep * (100 + a.bass)
            /\ colorPhase' = colorPhase + 100 + a.mid * 2
            /\ warpMode' = nw.mode
            /\ warpModeTimer' = nw.timer
            /\ currentBuffer' = ApplyWarpSwap(currentBuffer, b1, b2, mx, my)
            /\ gOutcome' = IF DrawImageThrows(w, h)
                             THEN "InvalidStateError" ELSE "ok"

\* Geiss.reset()
GeissReset ==
  /\ buffer1' = <<>>
  /\ buffer2' = <<>>
  /\ warpMapX' = <<>>
  /\ warpMapY' = <<>>
  /\ warpTime' = 0
  /\ warpMode' = 0
  /\ colorPhase' = 0
  /\ currentBuffer' = 0
  /\ gRenders' = 0
  /\ gOutcome' = "reset"
  /\ gCall' = <<>>
  /\ UNCHANGED <<warpModeTimer, gWidth, gHeight>>

(***************************************************************************)
(*                                Plasma                                   *)
(***************************************************************************)

PlasmaScale == 4

PlasmaInit ==
  /\ imageData = <<>>
  /\ pLastWidth = 0
  /\ pLastHeight = 0
  /\ pRenders = 0
  /\ pOutcome = "new"
  /\ pCall = <<>>

\* Plasma.render(ctx, audio, width, height, time)
PlasmaRender(width, height) ==
  LET w == width \div PlasmaScale
      h == height \div PlasmaScale
      changed == w # pLastWidth \/ h # pLastHeight
  IN
  /\ pRenders < MaxPlasmaFrames
  /\ pRenders' = pRenders + 1
  /\ pCall' = <<[width |-> width, height |-> height,
                 resized |-> changed /\ imageData # <<>>]>>
  /\ IF changed /\ ImageDataThrows(w, h)
       THEN \* createImageData raises before lastWidth / lastHeight are set
            /\ pOutcome' = "IndexSizeError"
            /\ UNCHANGED <<imageData, pLastWidth, pLastHeight>>
       ELSE /\ imageData' = IF changed THEN <<[w |-> w, h |-> h]>> ELSE imageData
            /\ pLastWidth' = w
            /\ pLastHeight' = h
            /\ pOutcome' = IF ~changed /\ imageData = <<>> THEN "skipped" ELSE "ok"

\* Plasma.reset()
PlasmaReset ==
  /\ imageData' = <<>>
  /\ pLastWidth' = 0
  /\ pLastHeight' = 0
  /\ pRenders' = 0
  /\ pOutcome' = "reset"
  /\ pCall' = <<>>

(***************************************************************************)
(*                               Terrain                                   *)
(***************************************************************************)

\* Bounds of the Terrain model.
MaxTerrainFrames == 103  \* render calls made on the instance
\* freqData.length of the snapshots fed to it
TerrainBins == FrequencyBinCount

HistoryLength == 100
Points == 64

\* The frequency snapshot the capture pipeline holds at frame t: bin j,
\* 0-based, in 0..255.  Successive frames differ in every bin.
FreqBin(t, j) == (t * 37 + j * 11) % 256

\* getBassAmplitude's range and sum over the snapshot of frame t.
BassRange == (TerrainBins * 1) \div 10

RECURSIVE BassSum(_, _)
BassSum(t, n) == IF n = 0 THEN 0 ELSE FreqBin(t, n - 1) + BassSum(t, n - 1)

\* Terrain.render's height map, values kept as the raw bin (value * 255).
Heights(t) ==
  [i \in 1..Points |-> FreqBin(t, ((i - 1) * TerrainBins * 6) \div (Points * 10))]

\* history.unshift(heights)
Unshift(h, row) == <<row>> \o h

\* history.length > historyLength
OverLength(h) == Len(h) > HistoryLength

\* A variant of Pop that removes the first element (shift).
PopNewest(h) == SubSeq(h, 2, Len(h))

\* history.pop(): the array without its last element
Pop(h) == SubSeq(h, 1, Len(h) - 1)

TerrainInit ==
  /\ history = <<>>
  /\ offset = 0
  /\ tFrame = 0
  /\ tPushed = <<>>
  /\ tEvicted = <<>>

\* Terrain.render(ctx, audio, width, height, time); offset is kept in units
\* of 1 / (255 * BassRange).
TerrainRender ==
  /\ tFrame < MaxTerrainFrames
  /\ tFrame' = tFrame + 1
  /\ tPushed' = Heights(tFrame)
  /\ LET grown == Unshift(history, Heights(tFrame)) IN
       IF OverLength(grown)
         THEN /\ history' = Pop(grown)
              /\ tEvicted' = <<grown[Len(grown)]>>
         ELSE /\ history' = grown
              /\ tEvicted' = <<>>
  /\ offset' = offset + 255 * BassRange + 3 * BassSum(tFrame, BassRange)

\* Terrain.reset()
TerrainReset ==
  /\ history' = <<>>
  /\ offset' = 0
  /\ tPushed' = <<>>
  /\ tEvicted' = <<>>
  /\ UNCHANGED tFrame

(***************************************************************************)
(*                              Particles                                  *)
(***************************************************************************)

\* Bound of the Particles model.
MaxParticleFrames == 8   \* render calls made on the instance

MaxParticles == 500
BurstSize == 50

\* One frame's inputs: the audio features in 1/100, the surface size in
\* pixels and the value r4 / 4 that this frame's Math.random() calls return
\* (one value for all calls of a frame).  The features of an input are
\* those of one frequency snapshot: average = 0.1 bass + 0.4 mid + 0.5 treble.
\*   full:   every bin at full scale, on an 800 x 600 surface
\*   loud:   as full with the bass bins at 0.8
\*   shrunk: silence on a surface shrunk to 30 x 30
ParticleInputs ==
  { [bass |-> 100, mid |-> 100, treble |-> 100, average |-> 100,
     width |-> 800, height |-> 600, r4 |-> 0],
    [bass |-> 80, mid |-> 100, treble |-> 100, average |-> 98,
     width |-> 800, height |-> 600, r4 |-> 2],
    [bass |-> 0, mid |-> 0, treble |-> 0, average |-> 0,
     width |-> 30, height |-> 30, r4 |-> 1] }

\* Inputs around the rising edge of the bass:
\*   quiet:  silence, on an 800 x 600 surface
\*   soft:   bass 0.2 under full mid and treble bins, on 800 x 600
\*   hit:    bass 0.7 alone, on a surface shrunk to 30 x 31
\* Positions and velocities are kept exact where the code adds rounded
\* doubles; with these surfaces no particle of the frames comes to lie on
\* an edge of its surface, where the rounding would decide the removal
\* test.
EdgeInputs ==
  { [bass |-> 0, mid |-> 0, treble |-> 0, average |-> 0,
     width |-> 800, height |-> 600, r4 |-> 0],
    [bass |-> 20, mid |-> 100, treble |-> 100, average |-> 92,
     width |-> 800, height |-> 600, r4 |-> 2],
    [bass |-> 70, mid |-> 0, treble |-> 0, average |-> 7,
     width |-> 30, height |-> 31, r4 |-> 1] }

\* cos and sin of 2 * pi * r4 / 4
Cos4(r4) == CASE r4 = 0 -> 1 [] r4 = 1 -> 0 [] r4 = 2 -> -1 [] OTHER -> 0
Sin4(r4) == CASE r4 = 0 -> 0 [] r4 = 1 -> 1 [] r4 = 2 -> 0 [] OTHER -> -1

\* spawnParticle(x, y, time, burst): positions in 1/1000000 pixel,
\* velocities in 1/10000 pixel per frame, life in frames.  size, hue and
\* maxLife only colour the drawing and are left out.
NewParticle(in, burst) ==
  LET speed == IF burst THEN 30000 + 20000 * in.r4 ELSE 10000 + 7500 * in.r4
      jitter == (5 * in.r4 - 10) * 1000000
  IN [x |-> (in.width * 1000000) \div 2 + jitter,
      y |-> (in.height * 1000000) \div 2 + jitter,
      vx |-> Cos4(in.r4) * speed,
      vy |-> Sin4(in.r4) * speed,
      life |-> 60 + 15 * in.r4]

\* The pairs <<bass, lastBass>>, in 1/100, of a rise of 0.1 exactly for which
\* the floating point difference bass - lastBass is above the double 0.1
\* (0.8 - 0.7 is 0.10000000000000009).
RiseRoundedUp ==
  { <<51, 41>>, <<52, 42>>, <<53, 43>>, <<54, 44>>, <<55, 45>>,
    <<56, 46>>, <<67, 57>>, <<68, 58>>, <<79, 69>>, <<80, 70>>,
    <<81, 71>>, <<92, 82>>, <<93, 83>> }

\* A variant of BassHit with the level 0.8 in place of 0.5.
BassHitAbove80(bass, last) ==
  /\ bass > 80
  /\ (bass - last > 10 \/ <<bass, last>> \in RiseRoundedUp)

\* bassHit: bass > 0.5 && bass - this.lastBass > 0.1, as the doubles compare
BassHit(bass, last) ==
  /\ bass > 50
  /\ (bass - last > 10 \/ <<bass, last>> \in RiseRoundedUp)

\* The pairs <<average, bass>>, in 1/100, for which average * 20 + bass * 30
\* is a whole number and the floating point sum lies just below it (0.01 *
\* 20 + 0.06 * 30 is 1.9999999999999998).
SumRoundedDown ==
  { <<1, 6>>, <<1, 36>>, <<1, 96>>, <<2, 12>>, <<2, 72>>,
    <<2, 82>>, <<3, 18>>, <<3, 48>>, <<4, 24>>, <<6, 36>>,
    <<6, 96>>, <<7, 72>>, <<7, 82>>, <<8, 48>>, <<11, 96>>,
    <<12, 72>>, <<12, 82>>, <<16, 96>>, <<47, 2>>, <<47, 12>>,
    <<47, 22>>, <<47, 72>>, <<57, 2>>, <<57, 12>>, <<59, 4>>,
    <<69, 4>>, <<72, 2>>, <<83, 8>>, <<83, 18>>, <<83, 48>>,
    <<94, 4>>, <<94, 14>>, <<94, 24>>, <<94, 44>> }

\* spawnRate: Math.floor(average * 20 + bass * 30) of the doubles
SpawnRate(in) ==
  (in.average * 20 + in.bass * 30) \div 100
    - (IF <<in.average, in.bass>> \in SumRoundedDown THEN 1 ELSE 0)

\* for (i = 0; i < 50; i++) spawnParticle(.., true)
RECURSIVE SpawnBurst(_, _, _)
SpawnBurst(ps, i, in) ==
  IF i < BurstSize THEN SpawnBurst(Append(ps, NewParticle(in, TRUE)), i + 1, in)
  ELSE ps

\* for (i = 0; i < spawnRate && particles.length < maxParticles; i++)
RECURSIVE SpawnRegular(_, _, _)
SpawnRegular(ps, i, in) ==
  IF i < SpawnRate(in) /\ Len(ps) < MaxParticles
    THEN SpawnRegular(Append(ps, NewParticle(in, FALSE)), i + 1, in)
    ELSE ps

\* One particle after the position, turbulence, gravity and life update.
MoveParticle(p, in) ==
  [x |-> p.x + p.vx * (100 + in.bass),
   y |-> p.y + p.vy * (100 + in.bass),
   vx |-> p.vx + ((in.r4 - 2) * in.treble * 25) \div 2,
   vy |-> p.vy + ((in.r4 - 2) * in.treble * 25) \div 2 + 5 * (100 - in.mid),
   life |-> p.life - 1]

\* The removal test of the update loop.
IsDead(p, in) ==
  \/ p.life <= 0
  \/ p.x < 0 \/ p.x > in.width * 1000000
  \/ p.y < 0 \/ p.y > in.height * 1000000

\* A variant of Splice that removes two elements: particles.splice(i, 2).
SpliceTwo(ps, i) == SubSeq(ps, 1, i - 1) \o SubSeq(ps, i + 2, Len(ps))

\* particles.splice(i, 1), i 1-based
Splice(ps, i) == SubSeq(ps, 1, i - 1) \o SubSeq(ps, i + 1, Len(ps))

\* The body of the update loop at index i (1-based): update, then remove
\* the particle or draw it.
UpdateAt(ps, i, in) ==
  LET p == MoveParticle(ps[i], in) IN
  IF IsDead(p, in) THEN Splice(ps, i) ELSE [ps EXCEPT ![i] = p]

\* for (i = particles.length - 1; i >= 0; i--) { body }: the body at the
\* indices hi down to lo, one after the other.  The range is halved, and
\* the upper half's result is taken (Len) before the lower half starts,
\* only to keep the evaluation shallow; the order of the iterations is the
\* loop's.
RECURSIVE UpdateLoop(_, _, _, _)
UpdateLoop(ps, lo, hi, in) ==
  IF lo > hi THEN ps
  ELSE IF lo = hi THEN UpdateAt(ps, lo, in)
  ELSE LET m == (lo + hi) \div 2
           upper == UpdateLoop(ps, m + 1, hi, in)
       IN IF Len(upper) >= 0 THEN UpdateLoop(upper, lo, m, in) ELSE upper

\* The pool after the two spawning steps of render.
Spawned(ps, in, last) ==
  SpawnRegular(IF BassHit(in.bass, last) THEN SpawnBurst(ps, 0, in) ELSE ps, 0, in)

ParticlesInit ==
  /\ particles = <<>>
  /\ lastBass = 0
  /\ pFrame = 0
  /\ pPeak = 0
  /\ pGrown = <<>>
  /\ pBurst = 0
  /\ pIn = <<>>

\* Particles.render(ctx, audio, width, height, time)
ParticlesRender(in) ==
  LET grown == Spawned(particles, in, lastBass) IN
  /\ pFrame < MaxParticleFrames
  /\ pFrame' = pFrame + 1
  /\ lastBass' = in.bass
  /\ pPeak' = Len(grown)
  /\ pGrown' = grown
  /\ pBurst' = IF BassHit(in.bass, lastBass) THEN Len(SpawnBurst(particles, 0, in)) - Len(particles)
               ELSE 0
  /\ pIn' = <<in>>
  /\ particles' = UpdateLoop(grown, 1, Len(grown), in)

\* Particles.reset()
ParticlesReset ==
  /\ particles' = <<>>
  /\ lastBass' = 0
  /\ pPeak' = 0
  /\ pGrown' = <<>>
  /\ pBurst' = 0
  /\ pIn' = <<>>
  /\ UNCHANGED pFrame

(***************************************************************************)
(*                             AudioEngine                                 *)
(***************************************************************************)

\* Bounds of the AudioEngine model.
MaxPendingStarts == 2   \* start() calls suspended at the same time
MaxReads == 2           \* accessor calls one caller makes
MaxLiveStreams == 2     \* streams the browser has open for the page at once

\* frequencyBinCount of the analysers start() creates.
BinCounts == {FrequencyBinCount}

\* The data the audio thread hands an analyser, by name: silence, every
\* bin at 51, and a ramp.
Patterns == {"zero", "uniform", "ramp"}

\* The byte frequency data of a pattern for n bins (bin i at index i + 1);
\* "low7" has bins 0..6 at full scale and the rest zero, "full" every bin
\* at full scale, "level50" and "level49" every bin at 50 and at 49.
FrequencyOf(p, n) ==
  [i \in 1..n |->
     CASE p = "zero" -> 0
       [] p = "uniform" -> 51
       [] p = "low7" -> IF i <= 7 THEN 255 ELSE 0
       [] p = "full" -> 255
       [] p = "level50" -> 50
       [] p = "level49" -> 49
       [] OTHER -> ((i - 1) * 37 + 5) % 256]

\* The byte time domain data of a pattern for fftSize = 2 n samples.
WaveformOf(p, n) ==
  [i \in 1..(2 * n) |->
     CASE p = "zero" -> 128
       [] p = "uniform" -> 128 + 51 * (i % 2)
       [] OTHER -> ((i - 1) * 5) % 256]

\* What an analyser holds after each block the audio thread can hand it:
\* frequencyBinCount bytes of frequency data and fftSize bytes of time
\* domain data.
AnalyserFrequency == [p \in Patterns |-> FrequencyOf(p, FrequencyBinCount)]
AnalyserWaveform == [p \in Patterns |-> WaveformOf(p, FrequencyBinCount)]

\* new Uint8Array(n)
ZeroArray(n) == [i \in 1..n |-> 0]

\* A number: a fraction num / den with den > 0, or NaN (written 0 / 0).
NaN == [num |-> 0, den |-> 0]
Zero == [num |-> 0, den |-> 1]

\* sum / count / 255 in floating point: with no bin in the loop's range it
\* is 0 / 0 / 255, NaN.
Quotient(sum, count) ==
  IF count = 0 THEN NaN ELSE [num |-> sum, den |-> count * 255]

\* let sum = 0; for (let i = from; i < to; i++) sum += data[i];
\* The range is summed in two halves only to keep the evaluation shallow;
\* the sum of bytes is the same in any order.
RECURSIVE SumLoop(_, _, _)
SumLoop(data, from, to) ==
  IF from >= to THEN 0
  ELSE IF to = from + 1 THEN data[from + 1]
  ELSE LET m == (from + to) \div 2
       IN SumLoop(data, from, m) + SumLoop(data, m, to)

\* Math.floor(data.length * 0.1)
BassEnd(n) == n \div 10

\* A variant of MidEnd that takes the upper half's first bin in.
MidEndInclusive(n) == n \div 2 + 1

\* Math.floor(data.length * 0.5), the end of the mid loop
MidEnd(n) == n \div 2

\* Math.floor(data.length * 0.5), the start of the treble loop
TrebleStart(n) == n \div 2

\* getAverageAmplitude, getBassAmplitude, getMidAmplitude and
\* getTrebleAmplitude on the array getFrequencyData returned.
AverageAmplitude(data) ==
  IF Len(data) = 0 THEN Zero
  ELSE Quotient(SumLoop(data, 0, Len(data)), Len(data))

BassAmplitude(data) ==
  IF Len(data) = 0 THEN Zero
  ELSE Quotient(SumLoop(data, 0, BassEnd(Len(data))), BassEnd(Len(data)))

MidAmplitude(data) ==
  IF Len(data) = 0 THEN Zero
  ELSE Quotient(SumLoop(data, BassEnd(Len(data)), MidEnd(Len(data))),
                MidEnd(Len(data)) - BassEnd(Len(data)))

TrebleAmplitude(data) ==
  IF Len(data) = 0 THEN Zero
  ELSE Quotient(SumLoop(data, TrebleStart(Len(data)), Len(data)),
                Len(data) - TrebleStart(Len(data)))

Accessors == {"average", "bass", "mid", "treble", "frequency", "waveform"}

\* The accessors taken as functions of the array getFrequencyData returns:
\* arrays of 0 to MaxFeatureBins bins, of 64 bins and of the engine's own
\* frequencyBinCount.  (start() gives every array of this engine
\* frequencyBinCount bins; the shorter ones stand for an analyser of
\* another size behind the same accessors.)
MaxFeatureBins == 12
FeatureLengths == (0..MaxFeatureBins) \cup {64, FrequencyBinCount}
FeaturePatterns == {"zero", "uniform", "ramp", "low7", "full"}
FeatureArrays == { FrequencyOf(p, n) : p \in FeaturePatterns, n \in FeatureLengths }

NoFeature == [acc |-> Null, data |-> <<>>, val |-> Zero]

FeaturesInit == feat = NoFeature

\* One of getAverageAmplitude, getBassAmplitude, getMidAmplitude and
\* getTrebleAmplitude, called when getFrequencyData returns data.
FeatureCall(acc, data) ==
  feat' = [acc |-> acc, data |-> data,
           val |-> CASE acc = "average" -> AverageAmplitude(data)
                     [] acc = "bass" -> BassAmplitude(data)
                     [] acc = "mid" -> MidAmplitude(data)
                     [] OTHER -> TrebleAmplitude(data)]

\* A variant of GetByteFrequencyData that adds the analyser's data to what
\* the array holds.
GetByteFrequencyDataAdding(array, data) ==
  [i \in 1..Len(array) |-> (array[i] + data[i]) % 256]

\* analyser.getByteFrequencyData(array): the analyser's current data is
\* copied over the array, as many bytes as the array has.
GetByteFrequencyData(array, data) == SubSeq(data, 1, Len(array))

\* analyser.getByteTimeDomainData(array)
GetByteTimeDomainData(array, data) == SubSeq(data, 1, Len(array))

\* A variant of GetFrequencyData that returns the array the engine holds
\* also when the analyser is gone.
GetFrequencyDataStale ==
  IF frequencyData = <<>> THEN <<>> ELSE frequencyData[1]

\* getFrequencyData(): the array it returns (emptyArray without analyser or
\* array).
GetFrequencyData ==
  IF analyser = Null \/ frequencyData = <<>>
    THEN <<>>
    ELSE GetByteFrequencyData(frequencyData[1], AnalyserFrequency[capture])

\* getWaveformData()
GetWaveformData ==
  IF analyser = Null \/ waveformData = <<>>
    THEN <<>>
    ELSE GetByteTimeDomainData(waveformData[1], AnalyserWaveform[capture])

AudioInit ==
  /\ audioContext = Null
  /\ analyser = Null
  /\ mediaStream = Null
  /\ source = Null
  /\ frequencyData = <<>>
  /\ waveformData = <<>>
  /\ binCount = 0
  /\ capture = "zero"
  /\ capturedSince = FALSE
  /\ pendingStarts = 0
  /\ inTask = FALSE
  /\ nReads = 0
  /\ lastRead = <<>>
  /\ aOp = "new"
  /\ liveStreams = 0
  /\ liveContexts = 0
  /\ stoppedWhileStarting = FALSE

\* start() up to its await: it returns at once when running, and is
\* suspended at getUserMedia otherwise.
AudioStart ==
  /\ ~inTask
  /\ pendingStarts < MaxPendingStarts
  /\ liveStreams + pendingStarts < MaxLiveStreams
  /\ aOp' = "start"
  /\ pendingStarts' = IF isRunning THEN pendingStarts ELSE pendingStarts + 1
  /\ stoppedWhileStarting' = IF isRunning THEN stoppedWhileStarting ELSE FALSE
  /\ UNCHANGED <<liveStreams, liveContexts>>
  /\ UNCHANGED <<audioContext, analyser, mediaStream, source, frequencyData,
                 waveformData, binCount, capture, capturedSince, inTask,
                 nReads, lastRead, isRunning>>

\* start() from its await on.  outcome: getUserMedia rejects ("denied"),
\* new AudioContext() raises ("nocontext"), or the chain is built ("ok");
\* the statements after new AudioContext() do not raise on a stream that
\* getUserMedia delivered.
AudioStartResume(outcome, n) ==
  /\ ~inTask
  /\ pendingStarts > 0
  /\ pendingStarts' = pendingStarts - 1
  /\ binCount # 0 => n = binCount
  /\ CASE outcome = "denied" ->
            /\ aOp' = "startFailed"
            /\ UNCHANGED <<audioContext, analyser, mediaStream, source,
                           frequencyData, waveformData, binCount, capture,
                           isRunning, liveStreams, liveContexts>>
       [] outcome = "nocontext" ->
            /\ aOp' = "startFailed"
            /\ mediaStream' = "stream"
            /\ liveStreams' = liveStreams + 1
            /\ UNCHANGED <<audioContext, analyser, source, frequencyData,
                           waveformData, binCount, capture, isRunning,
                           liveContexts>>
       [] OTHER ->
            /\ aOp' = "started"
            /\ mediaStream' = "stream"
            /\ audioContext' = "context"
            /\ analyser' = "analyser"
            /\ source' = "source"
            /\ binCount' = n
            /\ capture' = "zero"
            /\ frequencyData' = <<ZeroArray(n)>>
            /\ waveformData' = <<ZeroArray(2 * n)>>
            /\ isRunning' = TRUE
            /\ liveStreams' = liveStreams + 1
            /\ liveContexts' = liveContexts + 1
  /\ UNCHANGED <<capturedSince, inTask, nReads, lastRead,
                 stoppedWhileStarting>>

\* stop()
AudioStop ==
  /\ ~inTask
  /\ aOp' = "stop"
  /\ source' = Null
  /\ mediaStream' = Null
  /\ audioContext' = Null
  /\ analyser' = Null
  /\ isRunning' = FALSE
  /\ capture' = "zero"
  /\ liveStreams' = IF mediaStream # Null THEN liveStreams - 1 ELSE liveStreams
  /\ liveContexts' = IF audioContext # Null THEN liveContexts - 1
                      ELSE liveContexts
  /\ stoppedWhileStarting' = (pendingStarts > 0)
  /\ UNCHANGED <<frequencyData, waveformData, binCount, capturedSince,
                 pendingStarts, inTask, nReads, lastRead>>

\* The audio thread hands the analyser the next block of input; it runs
\* beside the page's thread, during a caller's run as well.
Capture ==
  /\ analyser # Null
  /\ \E p \in Patterns \ {capture} : capture' = p
  /\ capturedSince' = TRUE
  /\ UNCHANGED <<audioContext, analyser, mediaStream, source, frequencyData,
                 waveformData, binCount, pendingStarts, inTask, nReads,
                 lastRead, aOp, isRunning, resourceVars>>

\* A caller of the accessors (an Effect's render call) starts and ends.
TaskBegin ==
  /\ ~inTask
  /\ inTask' = TRUE
  /\ nReads' = 0
  /\ lastRead' = <<>>
  /\ aOp' = "task"
  /\ UNCHANGED <<audioContext, analyser, mediaStream, source, frequencyData,
                 waveformData, binCount, capture, capturedSince,
                 pendingStarts, isRunning, resourceVars>>

TaskEnd ==
  /\ inTask
  /\ inTask' = FALSE
  /\ nReads' = 0
  /\ lastRead' = <<>>
  /\ aOp' = "taskEnd"
  /\ UNCHANGED <<audioContext, analyser, mediaStream, source, frequencyData,
                 waveformData, binCount, capture, capturedSince,
                 pendingStarts, isRunning, resourceVars>>

\* One call of an accessor by the running caller.
AccessorCall(acc) ==
  LET data == GetFrequencyData
      wave == GetWaveformData
      val == CASE acc = "average" -> AverageAmplitude(data)
               [] acc = "bass" -> BassAmplitude(data)
               [] acc = "mid" -> MidAmplitude(data)
               [] acc = "treble" -> TrebleAmplitude(data)
               [] acc = "frequency" -> data
               [] OTHER -> wave
  IN
  /\ inTask
  /\ nReads < MaxReads
  /\ nReads' = nReads + 1
  /\ aOp' = "read"
  /\ capturedSince' = FALSE
  /\ lastRead' = <<[acc |-> acc, val |-> val,
                    snap |-> IF analyser = Null THEN Null ELSE capture,
                    again |-> /\ lastRead # <<>>
                              /\ lastRead[1].acc = acc
                              /\ ~capturedSince]>>
  /\ IF acc = "waveform"
       THEN /\ waveformData' = IF analyser = Null \/ waveformData = <<>>
                                 THEN waveformData ELSE <<wave>>
            /\ UNCHANGED frequencyData
       ELSE /\ frequencyData' = IF analyser = Null \/ frequencyData = <<>>
                                  THEN frequencyData ELSE <<data>>
            /\ UNCHANGED waveformData
  /\ UNCHANGED <<audioContext, analyser, mediaStream, source, binCount,
                 capture, pendingStarts, inTask, isRunning, resourceVars>>

(***************************************************************************)
(*                               Spectrum                                  *)
(***************************************************************************)

\* Bound of the Spectrum model.
MaxSpectrumFrames == 4

BarCount == 64
\* peakDecay = 0.98 = 49 / 50
PeakDecayNum == 49
PeakDecayDen == 50

\* The length of the array getFrequencyData() hands Spectrum: 0 while the
\* engine has no analyser.
SpectrumBins == {0, FrequencyBinCount}

\* The frequency data of the frames given to Spectrum.
SpectrumPatterns == Patterns \cup {"level50", "level49"}

RECURSIVE Pow(_, _)
Pow(b, e) == IF e = 0 THEN 1 ELSE b * Pow(b, e - 1)

\* The largest k in lo..hi with (q * k)^2 <= x, found by bisection.
RECURSIVE RootBelow(_, _, _, _)
RootBelow(x, q, lo, hi) ==
  IF lo = hi THEN lo
  ELSE LET m == (lo + hi + 1) \div 2
       IN IF (q * m) * (q * m) <= x
            THEN RootBelow(x, q, m, hi)
            ELSE RootBelow(x, q, lo, m - 1)

\* Math.floor(Math.pow(i / barCount, 1.5) * (frequencyData.length * 0.5)):
\* the largest k with k <= i^1.5 n / (2 * 64^1.5), that is, with
\* (1024 k)^2 <= i^3 n^2, the fraction n / 1024 taken in lowest terms.  For
\* the 1024 bins of the engine it is floor(sqrt(i^3)), which the floating
\* point expression yields for every bar.
FreqIndex(i, n) ==
  LET g == Gcd(n, 1024)
  IN RootBelow(i * i * i * (n \div g) * (n \div g), 1024 \div g, 0, n)

\* The pairs <<b, v>> of bytes with b / 255 * 0.98 = v / 255 for which the
\* floating point product b / 255 * 0.98 is rounded to the double below
\* v / 255 (for <<150, 147>> the two are the same double).
PeakRoundedDown == {<<50, 49>>, <<100, 98>>, <<200, 196>>, <<250, 245>>}

\* A peak is kept as [b, k]: the value b / 255 * 0.98^k, b a byte; 0 is
\* [0, 0].  value > this.peaks[i], value = v / 255, compared as the doubles
\* compare: as the exact numbers do, but for the products rounded down.
ExceedsPeak(v, pk) ==
  \/ v * Pow(PeakDecayDen, pk.k) > pk.b * Pow(PeakDecayNum, pk.k)
  \/ pk.k = 1 /\ <<pk.b, v>> \in PeakRoundedDown

\* this.peaks[i] *= this.peakDecay
Decayed(pk) == IF pk.b = 0 THEN pk ELSE [b |-> pk.b, k |-> pk.k + 1]

\* The peak update of one bar.
UpdatePeak(pk, v) ==
  IF ExceedsPeak(v, pk) THEN [b |-> v, k |-> 0] ELSE Decayed(pk)

\* new Array(barCount).fill(0)
ZeroPeaks == [i \in 1..BarCount |-> [b |-> 0, k |-> 0]]

SpectrumInit ==
  /\ peaks = <<>>
  /\ sValues = <<>>
  /\ sFrame = 0
  /\ sOp = "new"

\* Spectrum.render with the frequency data of pattern p over n bins
SpectrumRender(p, n) ==
  LET data == FrequencyOf(p, n)
      base == IF Len(peaks) # BarCount THEN ZeroPeaks ELSE peaks
      values == [i \in 1..BarCount |-> data[FreqIndex(i - 1, n) + 1]]
  IN
  /\ sFrame < MaxSpectrumFrames
  /\ sFrame' = sFrame + 1
  /\ sOp' = "render"
  /\ IF n = 0
       THEN /\ sValues' = <<>>
            /\ UNCHANGED peaks
       ELSE /\ sValues' = values
            /\ peaks' = [i \in 1..BarCount |-> UpdatePeak(base[i], values[i])]

\* Spectrum.reset()
SpectrumReset ==
  /\ peaks' = <<>>
  /\ sValues' = <<>>
  /\ sOp' = "reset"
  /\ UNCHANGED sFrame

(***************************************************************************)
(*                              Starfield                                  *)
(***************************************************************************)

\* Bound of the Starfield model.
MaxStarFrames == 3

NumStars == 400
\* z of createStar(false): 1000, in 1/1000000
FarDepth == 1000000000
\* the camera plane z = 1, in 1/1000000
NearDepth == 1000000

\* Values of Math.random() in 1/1000000 for the frames; z = random * 1000
\* is then 0.5 and 500.
StarRandoms == {500, 500000}

\* The draws of one initStars(), by name: star i takes the draw at
\* (i mod 3) + 1.
StarSeeds ==
  [near |-> <<500, 3000, 500000>>, edge |-> <<0, 1000, 999000>>]

\* bass and average of the frames, in 1/100.
StarAudio ==
  { [bass |-> 0, average |-> 0],
    [bass |-> 70, average |-> 7],
    [bass |-> 100, average |-> 100] }

\* A variant of CreateStar that draws the depth whatever the flag says.
CreateStarRandomDepth(randomZ, r) == [z |-> r * 1000, fresh |-> TRUE]

\* createStar(randomZ) with the draw r of Math.random() for z.  x, y, size
\* and hue only place and colour the drawing and are left out; fresh marks
\* a star created in the last frame or by initStars.
CreateStar(randomZ, r) ==
  [z |-> IF randomZ THEN r * 1000 ELSE FarDepth, fresh |-> TRUE]

\* initStars()
InitStars(seed) ==
  [i \in 1..NumStars |-> CreateStar(TRUE, StarSeeds[seed][(i % 3) + 1])]

\* this.stars.sort((a, b) => b.z - a.z): the stars at the depths of the set
\* depths, deepest first, stars of one depth in their order.
RECURSIVE SortFrom(_, _)
SortFrom(ss, depths) ==
  IF depths = {} THEN <<>>
  ELSE LET m == CHOOSE d \in depths : \A e \in depths : e <= d
           AtM(s) == s.z = m
       IN SelectSeq(ss, AtM) \o SortFrom(ss, depths \ {m})

SortByDepth(ss) == SortFrom(ss, {ss[i].z : i \in 1..Len(ss)})

\* 2 + bass * 25 + average * 10, in 1/1000000
TargetSpeed(in) == 2000000 + in.bass * 250000 + in.average * 100000

\* One star in the loop of render: moved, and replaced when it passed the
\* camera.
MoveStar(s, v, r) ==
  IF s.z - v <= NearDepth THEN CreateStar(FALSE, r)
  ELSE [z |-> s.z - v, fresh |-> FALSE]

StarfieldInit ==
  /\ stars = <<>>
  /\ starSpeed = 0
  /\ targetSpeed = 2000000
  /\ stFrame = 0
  /\ stOp = "none"

\* new Starfield()
StarfieldNew(seed) ==
  /\ stOp = "none"
  /\ stars' = InitStars(seed)
  /\ stOp' = "new"
  /\ UNCHANGED <<starSpeed, targetSpeed, stFrame>>

\* Starfield.render
StarfieldRender(in, r) ==
  LET v == starSpeed + (TargetSpeed(in) - starSpeed) \div 10
      sorted == SortByDepth(stars)
  IN
  /\ stOp # "none"
  /\ stFrame < MaxStarFrames
  /\ stFrame' = stFrame + 1
  /\ targetSpeed' = TargetSpeed(in)
  /\ starSpeed' = v
  /\ stars' = [i \in 1..Len(sorted) |-> MoveStar(sorted[i], v, r)]
  /\ stOp' = "render"

\* Starfield.reset()
StarfieldReset(seed) ==
  /\ stOp # "none"
  /\ stars' = InitStars(seed)
  /\ starSpeed' = 0
  /\ stOp' = "reset"
  /\ UNCHANGED <<targetSpeed, stFrame>>

(***************************************************************************)
(*                                Matrix                                   *)
(***************************************************************************)

\* Bound of the Matrix model.
MaxMatrixFrames == 8

FontSize == 16

\* The frames: surface size, bass in 1/100, the frequency data (1024 bins)
\* and the draws r of Math.random() the frame uses, in 1/100: for the
\* length, y and speed of a created column, and whether and to which
\* character the visible characters change.
MatrixInputs ==
  { [width |-> 50, height |-> 2, bass |-> 100, p |-> "full",
     r |-> [len |-> 0, y |-> 95, speed |-> 95, char |-> 3, change |-> FALSE]],
    [width |-> 50, height |-> 2, bass |-> 0, p |-> "zero",
     r |-> [len |-> 95, y |-> 0, speed |-> 0, char |-> 7, change |-> TRUE]],
    [width |-> 8, height |-> 2, bass |-> 0, p |-> "zero",
     r |-> [len |-> 0, y |-> 95, speed |-> 95, char |-> 3, change |-> FALSE]],
    [width |-> 20, height |-> 2, bass |-> 100, p |-> "full",
     r |-> [len |-> 95, y |-> 0, speed |-> 0, char |-> 7, change |-> TRUE]] }

\* createColumn(index, height, randomY); y and speed in 1/10.
CreateColumn(index, height, randomY, r) ==
  LET length == (r.len * 20) \div 100 + 10 IN
  [x |-> index * FontSize,
   y |-> IF randomY THEN (r.y * height * 10) \div 100 - height * 10 ELSE 0,
   speed |-> (r.speed * 20) \div 100 + 20,
   chars |-> [j \in 1..length |-> r.char],
   length |-> length]

\* initColumns(width, height): the columns it leaves
InitColumns(width, height, r) ==
  [i \in 1..(width \div FontSize) |-> CreateColumn(i - 1, height, TRUE, r)]

\* A variant of NeedsReinit that never asks for new columns.
NeedsReinitNever(width, last) == FALSE

\* Math.floor(width / this.fontSize) !== Math.floor(this.lastWidth / this.fontSize)
NeedsReinit(width, last) == width \div FontSize # last \div FontSize

\* The characters of a column after the drawing loop: a visible character
\* changes when the draw says so.
DrawChars(col, height, r) ==
  [j \in 1..Len(col.chars) |->
     LET charY == col.y - (j - 1) * FontSize * 10 IN
     IF j > col.length \/ charY < -FontSize * 10
          \/ charY > (height + FontSize) * 10
       THEN col.chars[j]
     ELSE IF r.change THEN r.char ELSE col.chars[j]]

\* col.y - col.length * this.fontSize > height
OffScreen(col, height) == col.y - col.length * FontSize * 10 > height * 10

\* The body of the column loop for column i (0-based) of n up to the test
\* for a column that left the surface: the column moved and drawn.
\* freqData[freqIndex] / 255 is 0 or 1: the data of the frames holds the
\* bytes 0 and 255 only.
MoveColumn(col, i, n, in) ==
  LET data == FrequencyOf(in.p, FrequencyBinCount)
      freqIndex == (i * FrequencyBinCount) \div (2 * n)
      freqValue == data[freqIndex + 1] \div 255
      moved == [col EXCEPT !.y = col.y + col.speed * (1 + (in.bass * 3) \div 100
                                                        + freqValue * 2)]
  IN [moved EXCEPT !.chars = DrawChars(moved, in.height, in.r)]

\* The body of the column loop for column i (0-based) of n.
UpdateColumn(col, i, n, in) ==
  LET drawn == MoveColumn(col, i, n, in)
      fresh == CreateColumn(i, in.height, FALSE, in.r)
  IN IF OffScreen(drawn, in.height)
       THEN [fresh EXCEPT !.y = -fresh.length * FontSize * 10]
       ELSE drawn

MatrixInit ==
  /\ columns = <<>>
  /\ lastWidth = 0
  /\ mFrame = 0
  /\ mWidth = <<>>
  /\ mRespawned = 0

\* Matrix.render
MatrixRender(in) ==
  LET first == IF NeedsReinit(in.width, lastWidth)
                 THEN InitColumns(in.width, in.height, in.r) ELSE columns
      cols == IF Len(first) = 0
                THEN InitColumns(in.width, in.height, in.r) ELSE first
      n == Len(cols)
  IN
  /\ mFrame < MaxMatrixFrames
  /\ mFrame' = mFrame + 1
  /\ mWidth' = <<in.width>>
  /\ lastWidth' = IF NeedsReinit(in.width, lastWidth) \/ Len(first) = 0
                    THEN in.width ELSE lastWidth
  /\ columns' = [i \in 1..n |-> UpdateColumn(cols[i], i - 1, n, in)]
  /\ mRespawned' = Cardinality({i \in 1..n :
                     OffScreen(MoveColumn(cols[i], i - 1, n, in), in.height)})

\* Matrix.reset()
MatrixReset ==
  /\ columns' = <<>>
  /\ lastWidth' = 0
  /\ mWidth' = <<>>
  /\ mRespawned' = 0
  /\ UNCHANGED mFrame

(***************************************************************************)
(*                  Geiss: the sampler and the drawing                     *)
(***************************************************************************)

\* Buffer widths and heights of the sampler calls.
SampleSizes == {1, 2, 5}

\* Buffer widths and heights of the drawing: a single pixel, a buffer that
\* the smallest circles cross and one that holds them.
PlotSizes == {1, 20, 50}

\* Source coordinates of the warp map, in 1/1000: inside, on the edges and
\* outside the image.
SampleCoords ==
  {-250000, -1, 0, 999, 1000, 3999, 4000, 4001, 300000}

\* Points of the circles drawWaveform draws, <<Math.cos(angle) * r2,
\* Math.sin(angle) * r2>> in 1/1000 rounded down, for the angles 4.644 (just
\* left of straight up), 0.3, 1.1, 2.0, 2.903, 3.703, 4.2 and 5.6 and for r2
\* = 10 (the least: radius 50, waveVal -1), 12.5 and 227.5 (radius 160,
\* waveVal 0.9375, freqVal 1).  Added to the centre of a buffer of PlotSizes,
\* every coordinate lies at least 0.01 from a whole number, so that
\* Math.floor of the double sum is the floor of the exact sum.
WavePoints ==
  { <<-684, -9977>>, <<-855, -12471>>, <<-15547, -226969>>, <<9553, 2955>>,
    <<11941, 3694>>, <<217339, 67230>>, <<4535, 8912>>, <<5669, 11140>>,
    <<103193, 202749>>, <<-4162, 9092>>, <<-5202, 11366>>, <<-94674, 206865>>,
    <<-9717, 2363>>, <<-12146, 2954>>, <<-221056, 53766>>, <<-8466, -5324>>,
    <<-10582, -6655>>, <<-192581, -121117>>, <<-4903, -8716>>, <<-6129, -10895>>,
    <<-111535, -198284>>, <<7755, -6313>>, <<9694, -7891>>, <<176441, -143614>> }

\* Points of the sparks, <<Math.cos(angle) * dist, Math.sin(angle) * dist>>
\* in 1/1000 rounded down, for the angles 4.68, 0.3, 1.1, 2.0, 2.9, 3.7, 4.2
\* and 5.6 and for dist = 20 and 117.5; as far from whole numbers as the
\* waveform points.
SparkPoints ==
  { <<-648, -19990>>, <<-3806, -117439>>, <<19106, 5910>>, <<112252, 34723>>,
    <<9071, 17824>>, <<53297, 104716>>, <<-8323, 18185>>, <<-48898, 106842>>,
    <<-19420, 4784>>, <<-114088, 28111>>, <<-16963, -10597>>, <<-99652, -62256>>,
    <<-9806, -17432>>, <<-57606, -102411>>, <<15511, -12626>>, <<91128, -74174>> }

Max(a, b) == IF a > b THEN a ELSE b

\* A variant of ClampCoord without the upper limit.
ClampCoordLowOnly(x, size) == Max(0, x)

\* Math.max(0, Math.min(size - 1.001, x)), in 1/1000
ClampCoord(x, size) == Max(0, Min(size * 1000 - 1001, x))

\* No call recorded.
NoSample ==
  [w |-> 0, h |-> 0, x0 |-> 0, y0 |-> 0, x1 |-> 0, y1 |-> 0,
   fx |-> 0, fy |-> 0, idx |-> <<>>]
NoPlot == [kind |-> "none", w |-> 0, h |-> 0, x |-> 0, y |-> 0, idx |-> <<>>]

SamplerInit ==
  /\ smp = NoSample
  /\ plt = NoPlot

\* sampleBilinear(src, x, y) on a w x h buffer: the four indices it reads
SampleBilinear(w, h, x, y) ==
  LET cx == ClampCoord(x, w)
      cy == ClampCoord(y, h)
      x0 == cx \div 1000
      y0 == cy \div 1000
      x1 == Min(x0 + 1, w - 1)
      y1 == Min(y0 + 1, h - 1)
  IN
  /\ smp' = [w |-> w, h |-> h, x0 |-> x0, y0 |-> y0, x1 |-> x1, y1 |-> y1,
             fx |-> cx - x0 * 1000, fy |-> cy - y0 * 1000,
             idx |-> << (y0 * w + x0) * 4, (y0 * w + x1) * 4,
                        (y1 * w + x0) * 4, (y1 * w + x1) * 4 >>]
  /\ plt' = NoPlot

\* One point of drawWaveform (kind "wave") or one spark (kind "spark") at
\* the offsets dx, dy from the centre of a w x h buffer: the index it
\* writes, if it writes.
PlotPoint(kind, w, h, dx, dy) ==
  LET x == (w * 500 + dx) \div 1000
      y == (h * 500 + dy) \div 1000
  IN
  /\ plt' = [kind |-> kind, w |-> w, h |-> h, x |-> x, y |-> y,
             idx |-> IF x >= 0 /\ x < w /\ y >= 0 /\ y < h
                       THEN <<(y * w + x) * 4>> ELSE <<>>]
  /\ smp' = NoSample

(***************************************************************************)
(*                           Specifications                                *)
(***************************************************************************)

Init ==
  /\ EngineInit
  /\ GeissInit
  /\ PlasmaInit
  /\ TerrainInit
  /\ ParticlesInit
  /\ AudioInit
  /\ SpectrumInit
  /\ StarfieldInit
  /\ MatrixInit
  /\ SamplerInit
  /\ FeaturesInit

\* The engine with its Effects taken through the Visualizer interface.
Next ==
  \/ \E id \in RegIds, v \in Instances :
       RegisterVisualizer(id, v)
         /\ UNCHANGED <<geissVars, plasmaVars, terrainVars, particleVars, audioVars, moreVars>>
  \/ \E id \in AllIds :
       SetVisualizer(id)
         /\ UNCHANGED <<geissVars, plasmaVars, terrainVars, particleVars, audioVars, moreVars>>
  \/ Start /\ UNCHANGED <<geissVars, plasmaVars, terrainVars, particleVars, audioVars, moreVars>>
  \/ Stop /\ UNCHANGED <<geissVars, plasmaVars, terrainVars, particleVars, audioVars, moreVars>>
  \/ Tick /\ UNCHANGED <<geissVars, plasmaVars, terrainVars, particleVars, audioVars, moreVars>>
  \/ AudioToggle /\ UNCHANGED <<geissVars, plasmaVars, terrainVars, particleVars, audioVars, moreVars>>
  \/ ClockAdvance /\ UNCHANGED <<geissVars, plasmaVars, terrainVars, particleVars, audioVars, moreVars>>

Spec == Init /\ [][Next]_vars

NextGeiss ==
  \/ \E width \in GeissSizes, height \in GeissSizes, a \in GeissAudio :
       GeissRender(width, height, a)
         /\ UNCHANGED <<engineVars, plasmaVars, terrainVars, particleVars, audioVars, moreVars>>
  \/ GeissReset /\ UNCHANGED <<engineVars, plasmaVars, terrainVars, particleVars, audioVars, moreVars>>

SpecGeiss == Init /\ [][NextGeiss]_vars

NextPlasma ==
  \/ \E width \in PlasmaSizes, height \in PlasmaSizes :
       PlasmaRender(width, height)
         /\ UNCHANGED <<engineVars, geissVars, terrainVars, particleVars, audioVars, moreVars>>
  \/ PlasmaReset /\ UNCHANGED <<engineVars, geissVars, terrainVars, particleVars, audioVars, moreVars>>

SpecPlasma == Init /\ [][NextPlasma]_vars

NextTerrain ==
  \/ TerrainRender /\ UNCHANGED <<engineVars, geissVars, plasmaVars, particleVars, audioVars, moreVars>>
  \/ TerrainReset /\ UNCHANGED <<engineVars, geissVars, plasmaVars, particleVars, audioVars, moreVars>>

SpecTerrain == Init /\ [][NextTerrain]_vars

NextParticles ==
  \/ \E in \in ParticleInputs :
       ParticlesRender(in)
         /\ UNCHANGED <<engineVars, geissVars, plasmaVars, terrainVars, audioVars, moreVars>>
  \/ ParticlesReset /\ UNCHANGED <<engineVars, geissVars, plasmaVars, terrainVars, audioVars, moreVars>>

SpecParticles == Init /\ [][NextParticles]_vars

NextParticlesEdge ==
  \/ \E in \in EdgeInputs :
       ParticlesRender(in)
         /\ UNCHANGED <<engineVars, geissVars, plasmaVars, terrainVars, audioVars, moreVars>>
  \/ ParticlesReset /\ UNCHANGED <<engineVars, geissVars, plasmaVars, terrainVars, audioVars, moreVars>>

SpecParticlesEdge == Init /\ [][NextParticlesEdge]_vars

NextAudio ==
  \/ AudioStart
       /\ UNCHANGED <<driverVars, geissVars, plasmaVars, terrainVars, particleVars, moreVars>>
  \/ \E outcome \in {"denied", "nocontext", "ok"}, n \in BinCounts :
       AudioStartResume(outcome, n)
         /\ UNCHANGED <<driverVars, geissVars, plasmaVars, terrainVars, particleVars, moreVars>>
  \/ AudioStop
       /\ UNCHANGED <<driverVars, geissVars, plasmaVars, terrainVars, particleVars, moreVars>>
  \/ Capture
       /\ UNCHANGED <<driverVars, geissVars, plasmaVars, terrainVars, particleVars, moreVars>>
  \/ TaskBegin
       /\ UNCHANGED <<driverVars, geissVars, plasmaVars, terrainVars, particleVars, moreVars>>
  \/ TaskEnd
       /\ UNCHANGED <<driverVars, geissVars, plasmaVars, terrainVars, particleVars, moreVars>>
  \/ \E acc \in Accessors :
       AccessorCall(acc)
         /\ UNCHANGED <<driverVars, geissVars, plasmaVars, terrainVars, particleVars, moreVars>>

SpecAudio == Init /\ [][NextAudio]_vars

NextSpectrum ==
  \/ \E p \in SpectrumPatterns, n \in SpectrumBins :
       SpectrumRender(p, n)
         /\ UNCHANGED <<engineVars, geissVars, plasmaVars, terrainVars, particleVars, audioVars, starfieldVars, matrixVars, samplerVars, featureVars>>
  \/ SpectrumReset
       /\ UNCHANGED <<engineVars, geissVars, plasmaVars, terrainVars, particleVars, audioVars, starfieldVars, matrixVars, samplerVars, featureVars>>

SpecSpectrum == Init /\ [][NextSpectrum]_vars

NextStarfield ==
  \/ \E seed \in DOMAIN StarSeeds :
       StarfieldNew(seed)
         /\ UNCHANGED <<engineVars, geissVars, plasmaVars, terrainVars, particleVars, audioVars, spectrumVars, matrixVars, samplerVars, featureVars>>
  \/ \E in \in StarAudio, r \in StarRandoms :
       StarfieldRender(in, r)
         /\ UNCHANGED <<engineVars, geissVars, plasmaVars, terrainVars, particleVars, audioVars, spectrumVars, matrixVars, samplerVars, featureVars>>
  \/ \E seed \in DOMAIN StarSeeds :
       StarfieldReset(seed)
         /\ UNCHANGED <<engineVars, geissVars, plasmaVars, terrainVars, particleVars, audioVars, spectrumVars, matrixVars, samplerVars, featureVars>>

SpecStarfield == Init /\ [][NextStarfield]_vars

NextMatrix ==
  \/ \E in \in MatrixInputs :
       MatrixRender(in)
         /\ UNCHANGED <<engineVars, geissVars, plasmaVars, terrainVars, particleVars, audioVars, spectrumVars, starfieldVars, samplerVars, featureVars>>
  \/ MatrixReset
       /\ UNCHANGED <<engineVars, geissVars, plasmaVars, terrainVars, particleVars, audioVars, spectrumVars, starfieldVars, samplerVars, featureVars>>

SpecMatrix == Init /\ [][NextMatrix]_vars

NextSampler ==
  \/ \E w \in SampleSizes, h \in SampleSizes, x \in SampleCoords, y \in SampleCoords :
       SampleBilinear(w, h, x, y)
         /\ UNCHANGED <<engineVars, geissVars, plasmaVars, terrainVars, particleVars, audioVars, spectrumVars, starfieldVars, matrixVars, featureVars>>
  \/ \E w \in PlotSizes, h \in PlotSizes, pt \in WavePoints :
       PlotPoint("wave", w, h, pt[1], pt[2])
         /\ UNCHANGED <<engineVars, geissVars, plasmaVars, terrainVars, particleVars, audioVars, spectrumVars, starfieldVars, matrixVars, featureVars>>
  \/ \E w \in PlotSizes, h \in PlotSizes, pt \in SparkPoints :
       PlotPoint("spark", w, h, pt[1], pt[2])
         /\ UNCHANGED <<engineVars, geissVars, plasmaVars, terrainVars, particleVars, audioVars, spectrumVars, starfieldVars, matrixVars, featureVars>>

SpecSampler == Init /\ [][NextSampler]_vars

\* The feature accessors on every array of FeatureArrays.
NextFeatures ==
  \/ \E data \in FeatureArrays :
       FeatureCall("average", data)
         /\ UNCHANGED <<engineVars, geissVars, plasmaVars, terrainVars, particleVars, audioVars, spectrumVars, starfieldVars, matrixVars, samplerVars>>
  \/ \E data \in FeatureArrays :
       FeatureCall("bass", data)
         /\ UNCHANGED <<engineVars, geissVars, plasmaVars, terrainVars, particleVars, audioVars, spectrumVars, starfieldVars, matrixVars, samplerVars>>
  \/ \E data \in FeatureArrays :
       FeatureCall("mid", data)
         /\ UNCHANGED <<engineVars, geissVars, plasmaVars, terrainVars, particleVars, audioVars, spectrumVars, starfieldVars, matrixVars, samplerVars>>
  \/ \E data \in FeatureArrays :
       FeatureCall("treble", data)
         /\ UNCHANGED <<engineVars, geissVars, plasmaVars, terrainVars, particleVars, audioVars, spectrumVars, starfieldVars, matrixVars, samplerVars>>

SpecFeatures == Init /\ [][NextFeatures]_vars

\* The two Effects that keep pixel buffers, one instance of each, rendered
\* and reset in any order; the render calls of the Geiss instance and those
\* of the Plasma instance since its last reset() are at most
\* MaxBufferFrames together.
MaxBufferFrames == 4

NextBuffers ==
  \/ \E width \in GeissSizes, height \in GeissSizes, a \in GeissAudio :
       /\ warpModeTimer \div TimerStep + pRenders < MaxBufferFrames
       /\ GeissRender(width, height, a)
       /\ UNCHANGED <<engineVars, plasmaVars, terrainVars, particleVars, audioVars, moreVars>>
  \/ GeissReset /\ UNCHANGED <<engineVars, plasmaVars, terrainVars, particleVars, audioVars, moreVars>>
  \/ \E width \in PlasmaSizes, height \in PlasmaSizes :
       /\ warpModeTimer \div TimerStep + pRenders < MaxBufferFrames
       /\ PlasmaRender(width, height)
       /\ UNCHANGED <<engineVars, geissVars, terrainVars, particleVars, audioVars, moreVars>>
  \/ PlasmaReset /\ UNCHANGED <<engineVars, geissVars, terrainVars, particleVars, audioVars, moreVars>>

SpecBuffers == Init /\ [][NextBuffers]_vars

(***************************************************************************)
(*                               Claims                                    *)
(***************************************************************************)

\* The effects a handler's calls rendered.
RenderTargets(c) == {c[i].v : i \in {j \in 1..Len(c) : c[j].op = "render"}}

\* The positions of a call in a handler's calls.
Positions(c, op, v) == {i \in 1..Len(c) : c[i].op = op /\ c[i].v = v}

\* C1: every setVisualizer(id) with a registered id made while an Effect is
\* current calls the outgoing Effect's reset (when it has one) before it
\* installs the new Effect, renders nothing itself, and leaves the outgoing
\* Effect in its constructed state; the render calls of a frame reach the
\* Effect that is current only.
C1_TeardownBeforeInstall ==
  [][ /\ ( /\ lastOp'.op = "setVisualizer"
           /\ visualizers[lastOp'.arg] # Null
           /\ currentVisualizer # Null )
        => /\ currentVisualizer' = visualizers[lastOp'.arg]
           /\ Positions(calls', "install", currentVisualizer') = {Len(calls')}
           /\ RenderTargets(calls') = {}
           /\ HasReset(currentVisualizer)
                => /\ \E i \in Positions(calls', "reset", currentVisualizer) :
                        i < Len(calls')
                   /\ currentVisualizer' # currentVisualizer
                        => ~dirty'[currentVisualizer]
      /\ lastOp'.op \in {"tick", "start"}
        => RenderTargets(calls') \subseteq {currentVisualizer'}
    ]_vars

\* C1 witness: a switch away from a rendered Effect with a reset method has
\* just called its reset and installed another Effect.
C1_Witness ==
  /\ lastOp.op = "setVisualizer"
  /\ Len(calls) = 2
  /\ calls[1].op = "reset"
  /\ calls[1].v # currentVisualizer
  /\ calls[2] = [op |-> "install", v |-> currentVisualizer]

\* C2: setVisualizer(id) with an id that is not in the registry only warns:
\* the current Effect, every Effect's state and the driver (handle and
\* scheduled callbacks) are unchanged and no reset is called.
C2_UnknownIdChangesNothing ==
  [][ ( lastOp'.op = "setVisualizer" /\ visualizers[lastOp'.arg] = Null )
        => /\ currentVisualizer' = currentVisualizer
           /\ dirty' = dirty
           /\ calls' = <<[op |-> "warn", v |-> Null]>>
           /\ animationId' = animationId
           /\ rafPending' = rafPending
           /\ startTime' = startTime
    ]_vars

\* C2 witness: an unknown id was given while a rendered Effect with a reset
\* method was current and the driver was running.
C2_Witness ==
  /\ lastOp = [op |-> "setVisualizer", arg |-> "nosuch"]
  /\ currentVisualizer # Null
  /\ HasReset(currentVisualizer)
  /\ dirty[currentVisualizer]
  /\ animationId # <<>>

\* C3: at most one frame callback is scheduled: exactly the one animationId
\* names while Running, none while Idle; start() while Running schedules
\* nothing and keeps the start timestamp; stop() while Idle changes nothing.
C3_OneCallbackPending ==
  /\ [](/\ Cardinality(rafPending) <= 1
        /\ animationId # <<>> => rafPending = {animationId[1]}
        /\ animationId = <<>> => rafPending = {})
  /\ [][ /\ ( lastOp'.op = "start" /\ animationId # <<>> )
           => /\ rafPending' = rafPending
              /\ animationId' = animationId
              /\ startTime' = startTime
              /\ calls' = <<>>
         /\ ( lastOp'.op = "stop" /\ animationId = <<>> )
           => /\ rafPending' = rafPending
              /\ animationId' = animationId
              /\ startTime' = startTime
       ]_vars

\* C3 witness: start() was called while Running, later than the start that
\* set the timestamp.
C3_Witness ==
  /\ lastOp.op = "start"
  /\ calls = <<>>
  /\ animationId # <<>>
  /\ now > startTime

\* C4: stop() leaves the driver Idle with no callback scheduled, and no
\* frame (no fade, no render) runs from an Idle state except the one start()
\* runs itself.
C4_NoTickAfterStop ==
  [][ /\ lastOp'.op = "stop" => (animationId' = <<>> /\ rafPending' = {})
      /\ animationId = <<>>
           => /\ lastOp'.op # "tick"
              /\ lastOp'.op # "start"
                   => \A i \in 1..Len(calls') :
                        calls'[i].op \notin {"fade", "render"}
    ]_vars

\* C4 witness: stop() was called after a frame callback had run and
\* scheduled the next one.
C4_Witness ==
  /\ lastOp.op = "stop"
  /\ animationId = <<>>
  /\ rafNext > 2

\* C5: every frame paints the fade overlay first; it renders the current
\* Effect if and only if there is one and audio is running; while audio is
\* not running a frame changes no Effect state.
C5_FadeThenRenderIfAudio ==
  [][ lastOp'.op = "tick"
        => /\ Len(calls') >= 1
           /\ calls'[1].op = "fade"
           /\ Positions(calls', "fade", Null) = {1}
           /\ ( currentVisualizer # Null /\ isRunning )
                => ( Len(calls') = 2 /\ calls'[2].op = "render"
                     /\ calls'[2].v = currentVisualizer )
           /\ ~( currentVisualizer # Null /\ isRunning ) => Len(calls') = 1
           /\ ~isRunning => dirty' = dirty
    ]_vars

\* C5 witness: a frame ran with an Effect current and audio not running.
C5_Witness ==
  /\ lastOp.op = "tick"
  /\ currentVisualizer # Null
  /\ ~isRunning
  /\ calls = <<[op |-> "fade", v |-> Null]>>

\* C6 as stated: in every reachable state exactly one Effect is active
\* (there is a current Effect, and a frame renders at most one).
C6_ExactlyOneActive ==
  /\ currentVisualizer # Null
  /\ Cardinality(RenderTargets(calls)) <= 1

\* C6 amended: at most one Effect is active.  None is until the first
\* setVisualizer with a registered id (and none has been rendered by then);
\* from then on there always is one, and a frame renders no Effect but the
\* current one.
C6_AtMostOneActive ==
  /\ [](/\ currentVisualizer \in Instances \cup {Null}
        /\ currentVisualizer = Null => \A v \in Instances : ~dirty[v]
        /\ RenderTargets(calls) \subseteq {currentVisualizer}
        /\ Cardinality(RenderTargets(calls)) <= 1)
  /\ [][currentVisualizer # Null => currentVisualizer' # Null]_vars

\* C6 witness: an Effect is current and was kept by a failed lookup.
C6_Witness ==
  /\ currentVisualizer # Null
  /\ lastOp.op = "setVisualizer"
  /\ visualizers[lastOp.arg] = Null

\* C7 as stated: the particle pool never holds more than maxParticles
\* particles, after a render call or inside one.
C7_PoolWithinMaximum ==
  /\ Len(particles) <= MaxParticles
  /\ pPeak <= MaxParticles

\* C8 as stated: after k render calls since construction or the last
\* reset() the buffer role is the initial role (0) XOR (k mod 2).
C8_RoleAlternates == currentBuffer = gRenders % 2

\* C9: the history never holds more than historyLength rows; a render call
\* puts its row first, keeps the rows it found in their order, and pops a
\* row only when it found historyLength rows, and then the oldest one.
C9_HistoryRing ==
  /\ [](Len(history) <= HistoryLength)
  /\ [][ tFrame' # tFrame
           => /\ Len(history') = Min(Len(history) + 1, HistoryLength)
              /\ history'[1] = tPushed'
              /\ \A i \in 2..Len(history') : history'[i] = history[i - 1]
              /\ tEvicted' = IF Len(history) = HistoryLength
                               THEN <<history[HistoryLength]>> ELSE <<>>
       ]_vars

\* C9 witness: a render call found the history full and popped a row.
C9_Witness ==
  /\ tEvicted # <<>>
  /\ Len(history) = HistoryLength
  /\ history[1] = tPushed

\* C10 as stated: a render call raises no error, whatever the positive
\* width and height.
C10_RenderNeverRaises ==
  /\ gOutcome \notin {"IndexSizeError", "InvalidStateError"}
  /\ pOutcome \notin {"IndexSizeError", "InvalidStateError"}

\* C11: a Geiss render call that sampled or wrote a pixel or a warp map
\* entry (it got past initBuffers with this.width and this.height, the
\* bounds of its loops, above 0) worked on two buffers and two warp maps of
\* exactly floor(width / 2) x floor(height / 2) of that call; a Plasma
\* render call that got to its pixel loop worked on an image of exactly
\* floor(width / 4) x floor(height / 4) of that call; whatever the sizes of
\* the calls before and whether reset() was called in between.
C11_BuffersMatchCall ==
  /\ ( gOutcome \in {"ok", "InvalidStateError"} /\ gWidth > 0 /\ gHeight > 0 )
       => LET w == gCall[1].width \div GeissScale
              h == gCall[1].height \div GeissScale
          IN /\ gWidth = w /\ gHeight = h
             /\ buffer1 = <<[w |-> w, h |-> h]>>
             /\ buffer2 = <<[w |-> w, h |-> h]>>
             /\ warpMapX = <<w * h>>
             /\ warpMapY = <<w * h>>
  /\ pOutcome = "ok"
       => LET w == pCall[1].width \div PlasmaScale
              h == pCall[1].height \div PlasmaScale
          IN /\ w > 0 /\ h > 0
             /\ imageData = <<[w |-> w, h |-> h]>>

\* C11 witness: the Geiss instance was rendered at 5 x 5 after a render at
\* another size and replaced its 1 x 1 or 2 x 1 buffers by 2 x 2 ones, and
\* the Plasma instance was rendered at 13 x 8 after a render at another
\* size and replaced its image by a 3 x 2 one.
C11_Witness ==
  /\ gOutcome = "ok"
  /\ gCall = <<[width |-> 5, height |-> 5, resized |-> TRUE]>>
  /\ buffer1 = <<[w |-> 2, h |-> 2]>>
  /\ warpMapX = <<4>>
  /\ pOutcome = "ok"
  /\ pCall = <<[width |-> 13, height |-> 8, resized |-> TRUE]>>
  /\ imageData = <<[w |-> 3, h |-> 2]>>

\* C11 second witness: a render call at 2 x 2 after a reset() that followed
\* two render calls; reset() had removed the buffers, and the call
\* allocated them again.
C11_WitnessTeardown ==
  /\ gOutcome = "ok"
  /\ gRenders = 1
  /\ warpModeTimer = 3 * TimerStep
  /\ gCall = <<[width |-> 2, height |-> 2, resized |-> FALSE]>>
  /\ buffer1 = <<[w |-> 1, h |-> 1]>>

\* C11 third witness: a render call at 1 x 1 that found the 1 x 1 buffers
\* of a call at 2 x 2 and width = height = 0, left by a call at 1 x 1 that
\* raised in initBuffers: it kept the buffers, and none of its loops ran.
C11_WitnessZeroField ==
  /\ gOutcome = "InvalidStateError"
  /\ gCall = <<[width |-> 1, height |-> 1, resized |-> FALSE]>>
  /\ gWidth = 0 /\ gHeight = 0
  /\ buffer1 = <<[w |-> 1, h |-> 1]>>

\* C12 as stated: right after reset() every persistent field of the Effect
\* has the value it has in a freshly constructed instance; for Geiss this
\* includes warpModeTimer, width and height.
C12_ResetRestoresConstructed ==
  gOutcome = "reset"
    => /\ buffer1 = <<>> /\ buffer2 = <<>>
       /\ warpMapX = <<>> /\ warpMapY = <<>>
       /\ currentBuffer = 0 /\ warpTime = 0 /\ warpMode = 0 /\ colorPhase = 0
       /\ warpModeTimer = 0
       /\ gWidth = 0 /\ gHeight = 0

\* C18: a frame whose render call raises still leaves the driver Running
\* with exactly its new callback scheduled, and the start timestamp and the
\* current Effect as they were, so the browser runs the next frame; a frame
\* run by a callback cancels nothing and consumes only the callback that
\* ran.
C18_RaiseKeepsLoop ==
  /\ [](uncaught
          => /\ lastOp.op \in {"tick", "start"}
             /\ animationId # <<>>
             /\ rafPending = {animationId[1]}
             /\ currentVisualizer \in RenderTargets(calls))
  /\ [][ ( uncaught' /\ lastOp'.op = "tick" )
           => /\ animationId' # animationId
              /\ startTime' = startTime
              /\ currentVisualizer' = currentVisualizer
       ]_vars
  /\ [][ uncaught => (lastOp'.op = "tick" => Len(calls') >= 1) ]_vars

\* C18 witness: the render call of a frame run by a scheduled callback has
\* raised, with the driver started earlier.
C18_Witness ==
  /\ uncaught
  /\ lastOp.op = "tick"
  /\ now > startTime
  /\ rafPending # {}

\* C19 as stated: a frame whose bass exceeds the bass of the frame before it
\* by more than 0.1 spawns a burst of exactly 50 particles whatever the bass
\* level is, and a frame without such a rise spawns no burst.
C19_BurstOnEveryRise ==
  [][ ( pFrame' = pFrame + 1 /\ pIn # <<>> )
        => pBurst' = IF pIn'[1].bass - pIn[1].bass > 10 THEN BurstSize ELSE 0
    ]_vars

\* C20 as stated: a frame with bass 0.7 that follows a frame with bass 0.2
\* ends with a pool at least 50 particles larger than the pool the frame
\* before it ended with.
C20_PoolGrowsByBurst ==
  [][ ( pFrame' = pFrame + 1 /\ pIn # <<>>
        /\ pIn[1].bass = 20 /\ pIn'[1].bass = 70 )
        => Len(particles') >= Len(particles) + BurstSize
    ]_vars

\* C20 amended: such a frame spawns a burst of exactly 50 particles, so
\* inside the frame, before its update loop, the pool is at least 50 larger
\* than the frame before left it; the update loop then removes the
\* particles that expired or left the surface, and the pool the frame ends
\* with is the spawned pool less those.
C20_BurstSpawned ==
  [][ ( pFrame' = pFrame + 1 /\ pIn # <<>>
        /\ pIn[1].bass = 20 /\ pIn'[1].bass = 70 )
        => /\ pBurst' = BurstSize
           /\ pPeak' >= Len(particles) + BurstSize
           /\ Len(particles') <= pPeak'
           /\ \A i \in 1..Len(particles') :
                ~IsDead(particles'[i], pIn'[1])
    ]_vars

\* C20 witness: the second frame, with bass 0.7 on the shrunk surface,
\* followed a frame with bass 0.2 that had left 24 particles; it spawned its
\* burst of 50 and 22 more and removed the 24 it found.
C20_Witness ==
  /\ pFrame = 2
  /\ pIn # <<>>
  /\ pIn[1].bass = 70
  /\ pBurst = BurstSize
  /\ pPeak = 96
  /\ Len(particles) = 72

\* The feature accessors.
Features == {"average", "bass", "mid", "treble"}

\* A fraction in lowest terms.
Lowest(a) ==
  [num |-> a.num \div Gcd(a.num, a.den), den |-> a.den \div Gcd(a.num, a.den)]

\* Equality of two numbers (NaN equals nothing).
SameNumber(a, b) == a # NaN /\ b # NaN /\ Lowest(a) = Lowest(b)

\* The bins (0-based) of a band of a sequence of n bins, as the
\* specification of the feature extractor gives them.
Band(f, n) ==
  CASE f = "average" -> 0..(n - 1)
    [] f = "bass" -> {i \in 0..(n - 1) : 10 * i < 10 * (n \div 10)}
    [] f = "mid" -> {i \in 0..(n - 1) : i >= n \div 10 /\ 2 * i + 1 < n}
    [] OTHER -> {i \in 0..(n - 1) : 2 * i + 1 >= n}

\* The sum of F over the bins of S that lie in lo..hi.
RECURSIVE SumIn(_, _, _, _)
SumIn(F, S, lo, hi) ==
  IF lo > hi THEN 0
  ELSE IF lo = hi THEN (IF lo \in S THEN F[lo + 1] ELSE 0)
  ELSE LET m == (lo + hi) \div 2
       IN SumIn(F, S, lo, m) + SumIn(F, S, m + 1, hi)

SumOver(F, S) == SumIn(F, S, 0, Len(F) - 1)

\* mean(F over the band) / 255
BandMean(F, f) ==
  [num |-> SumOver(F, Band(f, Len(F))), den |-> 255 * Cardinality(Band(f, Len(F)))]

\* C13: on a frequency array of 10 bins or more (the engine's arrays have
\* 1024) each of the four accessors returns the band mean of the
\* specification divided by 255; the three band loops are disjoint and
\* cover every bin (their counts and sums add up to those of the average);
\* a uniform array of value v gives v / 255 four times, and the bass loop
\* on 64 bins with bins 0..6 at 255 and the rest 0 gives 1.
C13_FeaturesAreBandMeans ==
  ( lastRead # <<>> /\ lastRead[1].snap # Null /\ lastRead[1].acc \in Features
    /\ Len(frequencyData[1]) >= 10 )
    => LET F == frequencyData[1]
           n == Len(F)
           acc == lastRead[1].acc
           val == lastRead[1].val
       IN /\ n = binCount
          /\ F = AnalyserFrequency[lastRead[1].snap]
          /\ SameNumber(val, BandMean(F, acc))
          /\ (\A i \in 1..n : F[i] = F[1])
               => SameNumber(val, [num |-> F[1], den |-> 255])
          /\ acc = "average"
               => LET ba == BassAmplitude(F)
                      mi == MidAmplitude(F)
                      tr == TrebleAmplitude(F)
                  IN /\ ba.den + mi.den + tr.den = val.den
                     /\ ba.num + mi.num + tr.num = val.num
          /\ acc = "bass"
               => SameNumber(BassAmplitude(FrequencyOf("low7", 64)),
                             [num |-> 1, den |-> 1])

\* C13 witness: getMidAmplitude was called on the ramp over the 1024 bins
\* of a started engine.
C13_Witness ==
  /\ lastRead # <<>>
  /\ binCount = FrequencyBinCount
  /\ lastRead[1].acc = "mid"
  /\ lastRead[1].snap = "ramp"
  /\ frequencyData = <<FrequencyOf("ramp", FrequencyBinCount)>>

\* C14: while the engine is not running (before start(), after a failed
\* start(), after stop()) there is no analyser, and an accessor called
\* without analyser returns 0, or the empty array; and the four features
\* of an all-zero frequency array are 0.
C14_ZeroWhenNotStarted ==
  /\ ~isRunning => analyser = Null
  /\ aOp \in {"new", "stop"} => ~isRunning
  /\ ( lastRead # <<>> /\ lastRead[1].snap = Null )
       => lastRead[1].val = IF lastRead[1].acc \in Features THEN Zero ELSE <<>>
  /\ ( lastRead # <<>> /\ lastRead[1].snap = "zero"
       /\ lastRead[1].acc \in Features )
       => SameNumber(lastRead[1].val, Zero)

\* C14 witness: getBassAmplitude returned 0 after stop(), the engine still
\* holding the array with the ramp read before stop().
C14_Witness ==
  /\ aOp = "read"
  /\ ~isRunning
  /\ lastRead # <<>>
  /\ lastRead[1].acc = "bass"
  /\ lastRead[1].snap = Null
  /\ lastRead[1].val = Zero
  /\ frequencyData = <<FrequencyOf("ramp", FrequencyBinCount)>>

\* C14 second witness: getTrebleAmplitude returned 0 on the all-zero data of
\* a running engine.
C14_WitnessSilence ==
  /\ aOp = "read"
  /\ isRunning
  /\ lastRead # <<>>
  /\ lastRead[1].acc = "treble"
  /\ lastRead[1].snap = "zero"
  /\ frequencyData = <<ZeroArray(FrequencyBinCount)>>

C16_AccessorIdempotent ==
  [][ ( aOp' = "read" /\ nReads' = nReads + 1 /\ lastRead # <<>>
        /\ ~capturedSince )
        => /\ lastRead'[1].acc = lastRead[1].acc
                => /\ lastRead'[1].val = lastRead[1].val
                   /\ frequencyData' = frequencyData
                   /\ waveformData' = waveformData
           /\ ( lastRead'[1].acc # "waveform" /\ lastRead[1].acc # "waveform" )
                => frequencyData' = frequencyData
           /\ <<audioContext, analyser, mediaStream, source, isRunning>>'
                = <<audioContext, analyser, mediaStream, source, isRunning>>
    ]_vars

\* C16 witness: getFrequencyData was called twice in a row on the same
\* non-zero analyser data.
C16_Witness ==
  /\ lastRead # <<>>
  /\ lastRead[1].again
  /\ lastRead[1].acc = "frequency"
  /\ lastRead[1].snap = "ramp"
  /\ lastRead[1].val = FrequencyOf("ramp", binCount)

\* C17 as stated: the accessor calls of one caller (one render call) all
\* read the same analyser data.
C17_OneSnapshotPerFrame ==
  [][ ( aOp' = "read" /\ nReads' = nReads + 1 /\ lastRead # <<>> )
        => lastRead'[1].snap = lastRead[1].snap
    ]_vars

\* C21: registerVisualizer(id, v) maps id to v whatever it was mapped to,
\* changes no other id, and changes neither the current Effect nor any
\* Effect's state; setVisualizer(id) installs what the registry maps id to,
\* which is the instance registered for id last.
C21_LastRegistrationWins ==
  [][ /\ lastOp'.op = "registerVisualizer"
           => /\ visualizers'[lastOp'.arg] = calls'[1].v
              /\ \A id \in AllIds \ {lastOp'.arg} :
                   visualizers'[id] = visualizers[id]
              /\ currentVisualizer' = currentVisualizer
              /\ dirty' = dirty
      /\ ( lastOp'.op = "setVisualizer" /\ visualizers[lastOp'.arg] # Null )
           => /\ currentVisualizer' = visualizers[lastOp'.arg]
              /\ visualizers' = visualizers
      /\ lastOp'.op \notin {"registerVisualizer"} => visualizers' = visualizers
    ]_vars

\* C21 witness: the id under which the current Effect was registered has
\* just been registered again with another instance; the current Effect is
\* in the registry no more and still current.
C21_Witness ==
  /\ lastOp = [op |-> "registerVisualizer", arg |-> "particles"]
  /\ calls = <<[op |-> "register", v |-> "partB"]>>
  /\ currentVisualizer = "partA"
  /\ \A id \in AllIds : visualizers[id] # "partA"

\* C22 as stated: the time a render call is given is never smaller than the
\* time the render call before it was given, and is the number of seconds
\* since the driver was started.
C22_TimeNeverDecreases ==
  [][ ( RenderTargets(calls') # {} /\ lastOp'.op \in {"tick", "start"} )
        => /\ renderTime'[1] * 1000 = now' - startTime'
           /\ renderTime # <<>> => renderTime'[1] >= renderTime[1]
    ]_vars

\* C22 amended: the time a render call is given is the number of seconds
\* since the last start() that found the driver Idle, which is not
\* negative; it is never smaller than the time of the render call before it
\* unless such a start() came in between (the time then restarts at 0).
C22_TimeSinceLastStart ==
  [][ ( RenderTargets(calls') # {} /\ lastOp'.op \in {"tick", "start"} )
        => /\ renderTime'[1] * 1000 = now' - startTime'
           /\ renderTime'[1] >= 0
           /\ \A i \in 1..Len(calls') :
                calls'[i].op = "render" => calls'[i].time = renderTime'[1]
           /\ ( renderTime # <<>> /\ renderStart = <<startTime'>> )
                => renderTime'[1] >= renderTime[1]
           /\ lastOp'.op = "start" => renderTime'[1] = 0
    ]_vars

\* C22 witness: a frame rendered at time 1 by a driver started when the clock
\* stood at 1000 ms: the time counts from the start, not from the page load.
C22_Witness ==
  /\ lastOp.op = "tick"
  /\ renderTime = <<1>>
  /\ startTime = 1000
  /\ now = 2000

\* C30, the driver's part: setVisualizer(id) with the id of the current
\* Effect calls that Effect's reset(), when it has one, and leaves it
\* current.
C30_ReactivationCallsTeardown ==
  [][ ( /\ lastOp'.op = "setVisualizer"
        /\ currentVisualizer # Null
        /\ visualizers[lastOp'.arg] = currentVisualizer )
        => /\ currentVisualizer' = currentVisualizer
           /\ HasReset(currentVisualizer)
                => /\ calls'[1] = [op |-> "reset", v |-> currentVisualizer]
                   /\ ~dirty'[currentVisualizer]
    ]_vars

\* C30 as stated, the Effect's part: the teardown hook that activating the
\* current Effect again invokes restarts its animation state from the
\* default; for Geiss the animation state is the warp clock, the warp mode,
\* the time towards the next mode change and the colour phase.
C30_ReactivationRestartsAnimation ==
  [][ gOutcome' = "reset"
        => /\ warpTime' = 0 /\ warpMode' = 0 /\ colorPhase' = 0
           /\ warpModeTimer' = 0
    ]_vars

\* C25: at the end of every Particles frame the pool is exactly the
\* particles of the pool after spawning, each one updated once, that are
\* alive after their update, in their order: none is skipped, no live one
\* is removed, and every particle left has life > 0 and a position inside
\* [0, width] x [0, height].
C25_NoDeadParticleLeft ==
  pIn # <<>>
    => LET in == pIn[1]
           moved == [i \in 1..Len(pGrown) |-> MoveParticle(pGrown[i], in)]
           Alive(p) == /\ p.life > 0
                       /\ p.x >= 0 /\ p.x <= in.width * 1000000
                       /\ p.y >= 0 /\ p.y <= in.height * 1000000
       IN /\ particles = SelectSeq(moved, Alive)
          /\ \A i \in 1..Len(particles) : Alive(particles[i])

\* C25 witness: a frame on the 30 x 31 surface that removed particles which
\* had left the surface and kept others.
C25_Witness ==
  /\ pFrame > 0
  /\ pIn # <<>>
  /\ pIn[1].width = 30
  /\ Len(particles) > 0
  /\ Len(particles) < pPeak

\* C23 as stated: when stop() has returned, no start() being suspended, the
\* engine holds no handle, isRunning is false, and every microphone stream
\* and audio context a start() acquired has been released, also when a
\* start() failed after it acquired the stream and start() was called again.
C23_StopReleasesEverything ==
  ( aOp = "stop" /\ pendingStarts = 0 )
    => /\ mediaStream = Null /\ audioContext = Null
       /\ analyser = Null /\ source = Null
       /\ ~isRunning
       /\ liveStreams = 0
       /\ liveContexts = 0

\* C29 as stated: once stop() ran while a start() was suspended and every
\* suspended start() has completed (no start() having been called since), the
\* engine is not running and holds no stream; and start() calls, overlapping
\* or not, never leave more than one stream open.
C29_StopWinsOverSuspendedStart ==
  /\ ( stoppedWhileStarting /\ pendingStarts = 0 )
       => /\ ~isRunning
          /\ mediaStream = Null
          /\ liveStreams = 0
  /\ pendingStarts = 0 => liveStreams <= 1

\* C24 as stated: after every Spectrum frame with non-empty audio each
\* bar's peak is max(previous peak * 0.98, current bar value), so it is
\* never below the bar's current value; and with all-zero data all 64 peaks
\* are 0.
C24_PeakIsMaxOfDecayAndValue ==
  [][ ( sOp' = "render" /\ sValues' # <<>> )
        => /\ Len(peaks') = BarCount
           /\ \A i \in 1..BarCount :
                LET old == IF Len(peaks) # BarCount THEN ZeroPeaks[i] ELSE peaks[i]
                    v == sValues'[i]
                IN /\ peaks'[i] = IF ExceedsPeak(v, Decayed(old))
                                    THEN [b |-> v, k |-> 0] ELSE Decayed(old)
                   /\ ~ExceedsPeak(v, peaks'[i])
           /\ ( ( \A i \in 1..BarCount : sValues'[i] = 0 )
                /\ Len(peaks) # BarCount )
                => peaks' = ZeroPeaks
    ]_vars

\* C26 as stated: after every Starfield frame the pool holds 400 stars,
\* every star has z > 1, and a star respawned in the frame has a depth
\* drawn at random as in initStars, Math.random() * 1000, which is below
\* 1000 and not one fixed value.
C26_RespawnAtRandomDepth ==
  /\ stOp # "none" => Len(stars) = NumStars
  /\ stOp = "render"
       => \A i \in 1..Len(stars) :
            /\ stars[i].z > NearDepth
            /\ stars[i].fresh => stars[i].z < FarDepth

\* C26 amended: the pool holds 400 stars from construction on; after every
\* frame every star has z > 1, and a star respawned in the frame is at the
\* far depth 1000 exactly.
C26_RespawnAtFarDepth ==
  /\ stOp # "none" => Len(stars) = NumStars
  /\ stOp = "render"
       => \A i \in 1..Len(stars) :
            /\ stars[i].z > NearDepth
            /\ stars[i].fresh => stars[i].z = FarDepth

\* C26 witness: a frame that respawned some stars (among them stars that
\* initStars had placed at z <= 1) and moved the others.
C26_Witness ==
  /\ stOp = "render"
  /\ \E i \in 1..Len(stars) : stars[i].fresh
  /\ \E i \in 1..Len(stars) : ~stars[i].fresh

\* C27: after every Matrix render call at width w there are floor(w / 16)
\* columns, whatever widths came before and whether or not reset() was
\* called in between, and the trail of every column has as many characters
\* as its length field says.
C27_ColumnsMatchWidth ==
  /\ mWidth # <<>> => Len(columns) = mWidth[1] \div FontSize
  /\ \A i \in 1..Len(columns) :
       /\ Len(columns[i].chars) = columns[i].length
       /\ columns[i].x = (i - 1) * FontSize

\* C27 witness: a frame on the 50 wide surface that replaced a column which
\* had fallen off the surface, three columns being there.
C27_Witness ==
  /\ mWidth = <<50>>
  /\ Len(columns) = 3
  /\ mRespawned > 0

\* C27 second witness: a frame at a width below 16 leaves no column.
C27_WitnessNarrow ==
  /\ mWidth = <<8>>
  /\ lastWidth = 8
  /\ columns = <<>>
  /\ mFrame > 1

\* C28: the four neighbours sampleBilinear reads lie inside the w x h
\* buffer for every source coordinate, those outside the image included,
\* and every pixel the waveform or spark drawing writes lies inside it; the
\* indices are those of bytes of the buffer.
C28_AccessInsideBuffer ==
  /\ smp # NoSample
       => /\ 0 <= smp.x0 /\ smp.x0 < smp.w /\ 0 <= smp.x1 /\ smp.x1 < smp.w
          /\ 0 <= smp.y0 /\ smp.y0 < smp.h /\ 0 <= smp.y1 /\ smp.y1 < smp.h
          /\ smp.x1 - smp.x0 \in {0, 1} /\ smp.y1 - smp.y0 \in {0, 1}
          /\ 0 <= smp.fx /\ smp.fx < 1000 /\ 0 <= smp.fy /\ smp.fy < 1000
          /\ \A j \in 1..4 :
               0 <= smp.idx[j] /\ smp.idx[j] + 2 < smp.w * smp.h * 4
  /\ plt.idx # <<>>
       => /\ 0 <= plt.x /\ plt.x < plt.w /\ 0 <= plt.y /\ plt.y < plt.h
          /\ 0 <= plt.idx[1] /\ plt.idx[1] + 2 < plt.w * plt.h * 4

\* C28 witness: a sample at a coordinate right of and below a 1 x 1 buffer.
C28_Witness ==
  /\ smp.w = 1 /\ smp.h = 1
  /\ smp.idx = <<0, 0, 0, 0>>

\* C28 second witness: the waveform point at distance 10 nearly straight
\* above the centre of a 20 x 20 buffer, written into pixel 9 of row 0.
C28_WitnessPlot ==
  /\ plt.kind = "wave"
  /\ plt.w = 20 /\ plt.h = 20
  /\ plt.x = 9 /\ plt.y = 0
  /\ plt.idx = <<36>>

\* C28 third witness: a spark that falls outside a 20 x 20 buffer is not
\* written.
C28_WitnessSkipped ==
  /\ plt.kind = "spark"
  /\ plt.w = 20 /\ plt.h = 20
  /\ plt.x = 29 /\ plt.y = 15
  /\ plt.idx = <<>>

====
